---- MODULE Spec2Model ----
(***************************************************************************)
(* State-machine model of dasclient/agol_tools.py (class AgolTools): the   *)
(* reconciliation of EarthRanger (ER) events into an ArcGIS Online (AGOL)  *)
(* feature layer, of ER track observations into a layer of points and of   *)
(* ER subject tracks into a layer of lines.                                *)
(*                                                                         *)
(* Nine specifications share the variables and the actions:                *)
(*   Spec        repeated passes of upsert_events_from_er over an evolving *)
(*               ER event set and an evolving feature layer;               *)
(*   SpecReconcile  the reconciliation loop of one pass, from every        *)
(*               combination of ER events and layer rows around the        *)
(*               staleness boundary;                                       *)
(*   SpecUpsert  one call of _upsert_features on arbitrary add/update      *)
(*               lists and an arbitrary chunk size;                        *)
(*   SpecAttach  one call of _replace_attachments on an arbitrary layer    *)
(*               and an arbitrary event_files dictionary;                  *)
(*   SpecPass    one pass of upsert_events_from_er with typed events,      *)
(*               schemas that may be missing, a layer that may lack fields *)
(*               and calls of the map service that may fail;               *)
(*   SpecTranslate  the translation of the event_details of one event,     *)
(*               field by field, done twice on the same event object;      *)
(*   SpecPoints  one call of upsert_track_points_from_er;                  *)
(*   SpecRetry   two passes of upsert_events_from_er over the same events  *)
(*               with a clock that stands still and edits that may fail;   *)
(*   SpecTracks  one call of upsert_tracks_from_er.                        *)
(* In Spec, SpecReconcile, SpecUpsert and SpecAttach every schema resolves *)
(* and the layer has the base attributes.                                  *)
(*                                                                         *)
(* Times are whole seconds since the epoch of the model; timestamps the    *)
(* code handles in milliseconds (EditDate, timestamp()*1000) are kept in   *)
(* milliseconds.                                                           *)
(***************************************************************************)
EXTENDS Integers, Sequences, FiniteSets, TLC

(***************************************************************************)
(* Bounds of the model.                                                    *)
(***************************************************************************)
MaxKey == 2
\* serial numbers of ER events are 1..MaxKey
MaxTicks == 1
\* how often the clock advances
MaxReports == 2
\* how many times ER events are created or edited
MaxPasses == 2
\* how many passes of upsert_events_from_er are started
MaxFiles == 1
\* files attached to one ER event (Spec)
MaxAdds == 7
\* length of add_features (SpecUpsert)
MaxUpdates == 2
\* length of update_features (SpecUpsert)
MaxChunk == 3
\* chunk_size (SpecUpsert)
MaxAttachments == 2
\* attachments on a feature and desired files of a key (SpecAttach)
MaxFields == 2
\* fields in the event_details of the translated event (SpecTranslate)
MaxPoints == 2
\* observations get_subject_observations returns for a subject (SpecPoints)
MaxTracks == 2
\* features get_subject_tracks returns for a subject (SpecTracks)

(***************************************************************************)
(* Program constants.                                                      *)
(***************************************************************************)
UPDATE_TIME_PADDING == 24 * 60
\* minutes
DEFAULT_LOOKBACK_DAYS == 30
EVENT_CHUNK_SIZE == 50
POINT_CHUNK_SIZE == 50
TRACK_CHUNK_SIZE == 2

PaddingSeconds == UPDATE_TIME_PADDING * 60
\* clock increments: one second, and exactly the staleness padding
TickSteps == {1, PaddingSeconds}
\* an explicit oldest_date a caller passes: one hour before the pass starts
CallerLookback == 60 * 60

\* the oldest_date argument: None, or a datetime (seconds)
None == [given |-> FALSE, date |-> 0]
Date(t) == [given |-> TRUE, date |-> t]

NoEvent == [serial_number |-> 0]

Keys == 1..MaxKey

VARIABLES
    now,                \* wall clock, seconds
    ticks,              \* number of clock advances so far
    reports,            \* number of ER edits so far
    passes,             \* number of passes started so far
    er,                 \* the tracking service: serial number -> event or NoEvent
    layer,              \* the AGOL layer: sequence of rows (features)
    pc,                 \* position of the running call
    caller,             \* which entry point the running call was started from
    oldest_date,        \* local oldest_date of the pass (seconds)
    include_attachments,
    include_incidents,
    er_events,          \* the events get_events returned, in iteration order
    existing_events,    \* the index of _get_existing_esri_events
    event_count,        \* events the loop has taken so far
    features_to_add,
    features_to_update,
    er_event_files,     \* <<keys in insertion order, key -> files>>
    chunk_size,
    chunk_start,        \* i of _chunk's range(0, len(lst), chunk_size)
    calls,              \* the edit_features calls of this call, with results
    added,
    updated,
    att_existing,       \* existing_events of _replace_attachments
    att_pos,            \* index into event_files.keys()
    esri_object_id,
    existing_attachments, \* attachments still to delete for the current key
    file_pos,           \* files of the current key added so far
    att_log,            \* attachment operations of this call
    att_done,           \* keys whose replacement finished
    er_schemas,         \* the tracking service: event type -> schema document
    layer_fields,       \* names of esri_layer.properties.fields
    field_calls,        \* the add_to_definition calls of this call, with results
    query_log,          \* the outcomes of the layer queries of this call
    er_field_types,     \* the schema cache of the pass: event type -> field_defs
    schema_calls,       \* the event types get_event_schema was asked for
    fields_to_add,      \* the pending new fields: <<name, esri type, title>>
    feature,            \* the feature the translation of one event is building
    field_pos,          \* index into event['event_details'].keys()
    subjects,           \* the subjects get_subjects returned
    subject_pos,        \* subjects the loop has taken so far
    er_observations,    \* the observations of the current subject
    existing_points,    \* the index of _get_existing_esri_points
    point_count,        \* observations the loop has taken so far
    existing_tracks,    \* the index of _get_existing_esri_tracks
    track_log,          \* the get_subject_tracks calls of this call, with results
    prev_run            \* oldest_date and edit_features calls of the call before

envVars == <<now, ticks, reports, passes, er>>
passVars == <<oldest_date, include_attachments, include_incidents, er_events,
              existing_events, event_count, features_to_add, features_to_update,
              er_event_files>>
upsertVars == <<chunk_size, chunk_start, calls, added, updated>>
attVars == <<att_existing, att_pos, esri_object_id, existing_attachments,
             file_pos, att_log, att_done>>
fieldVars == <<er_schemas, layer_fields, field_calls, query_log, er_field_types,
               schema_calls, fields_to_add, feature, field_pos>>
pointVars == <<subjects, subject_pos, er_observations, existing_points, point_count>>
lateVars == <<existing_tracks, track_log, prev_run>>
moreVars == <<fieldVars, pointVars, lateVars>>
vars == <<envVars, layer, pc, caller, passVars, upsertVars, attVars, moreVars>>

(***************************************************************************)
(* Helpers on sequences.                                                   *)
(***************************************************************************)
Range(s) == {s[i] : i \in 1..Len(s)}

Min(a, b) == IF a < b THEN a ELSE b

RECURSIVE SeqOfSet(_)
\* the elements of a finite set of integers in ascending order
SeqOfSet(S) ==
    IF S = {} THEN <<>>
    ELSE LET m == CHOOSE x \in S : \A y \in S : x <= y
         IN <<m>> \o SeqOfSet(S \ {m})

(***************************************************************************)
(* str(): decimal rendering of an integer, and the integer field's reading *)
(* of such a string back into a number.                                    *)
(***************************************************************************)
Str(n) == ToString(n)

IntOfStr(s) == CHOOSE n \in 0..(MaxKey + MaxAdds + MaxUpdates + 1) : Str(n) = s

(***************************************************************************)
(* Python dictionaries with string keys are functions on a set of strings: *)
(* k in d, d.get(k, default), d[k] = v, d.pop(k).  A dictionary whose      *)
(* iteration order matters is kept as [keys |-> sequence, vals |-> map].   *)
(***************************************************************************)
Has(d, k) == k \in DOMAIN d

Get(d, k, default) == IF k \in DOMAIN d THEN d[k] ELSE default

Put(d, k, v) == [x \in DOMAIN d \cup {k} |-> IF x = k THEN v ELSE d[x]]

Pop(d, k) == [x \in DOMAIN d \ {k} |-> d[x]]

EmptyDict == <<>>

(***************************************************************************)
(* Strings: the characters of the names of the model, str.replace and      *)
(* str.join.                                                               *)
(***************************************************************************)
Chars == {"a", "b", "c", "d", "e", "f", "g", "h", "i", "j", "k", "l", "m",
          "n", "o", "p", "q", "r", "s", "t", "u", "v", "w", "x", "y", "z",
          "A", "B", "C", "D", "E", "F", "G", "H", "I", "J", "K", "L", "M",
          "N", "O", "P", "Q", "R", "S", "T", "U", "V", "W", "X", "Y", "Z",
          "0", "1", "2", "3", "4", "5", "6", "7", "8", "9", "_", "-", ",", " "}

\* the first character of a non-empty string
FirstChar(s) == CHOOSE c \in Chars : c \o Tail(s) = s

RECURSIVE Replace(_, _, _)
\* s.replace(old, new) for a single character old
Replace(s, old, new) ==
    IF s = "" THEN ""
    ELSE (IF FirstChar(s) = old THEN new ELSE FirstChar(s))
            \o Replace(Tail(s), old, new)

RECURSIVE Join(_, _)
\* sep.join(strings)
Join(sep, strings) ==
    IF strings = <<>> THEN ""
    ELSE IF Len(strings) = 1 THEN Head(strings)
    ELSE Head(strings) \o sep \o Join(sep, Tail(strings))

(***************************************************************************)
(* The tracking service (ER).  An event is a record                        *)
(*   [serial_number, updated_at (seconds), is_collection, files,           *)
(*    event_type, event_details];                                          *)
(* a file is [url, filename].  event_details is a dictionary in iteration  *)
(* order; a raw value is a scalar or a list, and an element is a string or *)
(* a number.                                                               *)
(***************************************************************************)
File(f) == [url |-> f, filename |-> f]

FileList(n) == [i \in 1..n |-> File(i)]

Text(s) == [is_str |-> TRUE, s |-> s, n |-> 0]

Number(n) == [is_str |-> FALSE, s |-> "", n |-> n]

Scalar(v) == [is_list |-> FALSE, value |-> v]

List(vs) == [is_list |-> TRUE, items |-> vs]

NoDetails == [keys |-> <<>>, vals |-> EmptyDict]

\* the dictionary with one entry
Detail(field, raw) == [keys |-> <<field>>, vals |-> Put(EmptyDict, field, raw)]

\* the dictionary d followed by one more entry
WithDetail(d, field, raw) ==
    [keys |-> IF field \in Range(d.keys) THEN d.keys ELSE Append(d.keys, field),
     vals |-> Put(d.vals, field, raw)]

EventTypes == {"sighting", "snare"}

EventOf(k, t, coll, n, type, details) ==
    [serial_number |-> k, updated_at |-> t, is_collection |-> coll,
     files |-> FileList(n), event_type |-> type, event_details |-> details]

\* an event of type sighting without details
Event(k, t, coll, n) == EventOf(k, t, coll, n, "sighting", NoDetails)

(***************************************************************************)
(* The schema documents of the event types, as get_event_schema returns    *)
(* them: schema.title, schema.properties (property name -> property) and    *)
(* definition (a list of form sections, each with items that may carry a   *)
(* key and a titleMap).  A property may have a type, a title, a key into   *)
(* the definition, or enumNames.                                           *)
(***************************************************************************)
SpeciesTitleMap ==
    <<[value |-> "a", name |-> "Alpha"], [value |-> "b", name |-> "Beta"],
      [value |-> "L", name |-> "Lion"]>>

\* a substitution whose outputs are inputs again
GradeNames == [a |-> "b", b |-> "c"]

SightingSchema ==
    [schema |->
        [title |-> "Sighting",
         properties |->
            ("herd-id" :> [type |-> "number", title |-> "Herd"])
            @@ [species |-> [type |-> "string", title |-> "Species", key |-> "species"],
                count |-> [type |-> "number", title |-> "Count"],
                grade |-> [type |-> "string", enumNames |-> GradeNames],
                herd_id |-> [type |-> "string"],
                tag_no |-> [type |-> "string", title |-> "Tag"]]
            @@ ("tag-no" :> [type |-> "string", title |-> "Old tag"])],
     definition |->
        <<[name |-> "details"],
          [name |-> "animals",
           items |-> <<[key |-> "count"],
                       [key |-> "species", titleMap |-> SpeciesTitleMap]>>]>>]

SnareSchema ==
    [schema |->
        [title |-> "Snare",
         properties |->
            [species |-> [title |-> "Species", key |-> "species"],
             count |-> [type |-> "string"]]],
     definition |->
        <<[name |-> "animals",
           items |-> <<[key |-> "species", titleMap |-> SpeciesTitleMap]>>]>>]

Schemas == [type \in EventTypes |->
               IF type = "sighting" THEN SightingSchema ELSE SnareSchema]

\* an event type whose schema the tracking service cannot deliver
NoSchema == [available |-> FALSE]

\* das_client.get_event_schema(event_type) returns (does not raise)
SchemaResolves(type) == er_schemas[type] # NoSchema

RECURSIVE AllItems(_)
\* the items of the sections, in the order the two loops visit them
AllItems(schema_defs) ==
    IF schema_defs = <<>> THEN <<>>
    ELSE Get(Head(schema_defs), "items", <<>>) \o AllItems(Tail(schema_defs))

\* value_map[map_item['value']] = map_item['name'] for every map_item
ValueMapOf(titleMap) ==
    [v \in {titleMap[i].value : i \in 1..Len(titleMap)} |->
        LET last == CHOOSE i \in 1..Len(titleMap) :
                        /\ titleMap[i].value = v
                        /\ \A j \in (i+1)..Len(titleMap) : titleMap[j].value # v
        IN titleMap[last].name]

\* __get_value_map_from_prop_def(schema_defs, key)
_get_value_map_from_prop_def(schema_defs, key) ==
    LET items == AllItems(schema_defs)
        hits == {i \in 1..Len(items) :
                    /\ Has(items[i], "key")
                    /\ items[i].key = key
                    /\ Has(items[i], "titleMap")}
    IN IF hits = {} THEN EmptyDict
       ELSE ValueMapOf(items[CHOOSE i \in hits : \A j \in hits : i <= j].titleMap)

\* _get_er_field_definitions(event_type)[1] for the schema document of the type
_get_er_field_definitions(schema) ==
    LET props == schema.schema.properties
    IN [prop_name \in DOMAIN props |->
          LET prop == props[prop_name]
          IN IF Has(prop, "key")
             THEN Put(prop, "value_map",
                      _get_value_map_from_prop_def(schema.definition, prop.key))
             ELSE IF Has(prop, "enumNames")
             THEN Put(Pop(prop, "enumNames"), "value_map", prop.enumNames)
             ELSE prop]

\* das_client.get_events(..., oldest_update_date = oldest_date): the events
\* updated at or after oldest_date, here in ascending serial number.
get_events(oldest) ==
    LET ks == {k \in Keys : er[k] # NoEvent /\ er[k].updated_at >= oldest}
        order == SeqOfSet(ks)
    IN [i \in 1..Len(order) |-> er[order[i]]]

(***************************************************************************)
(* The map service (AGOL layer).  A row is                                 *)
(*   [OBJECTID, ER_REPORT_NUMBER, EditDate (ms), attachments];             *)
(* an attachment is [id, name].  OBJECTIDs are assigned by the service and *)
(* rows are never deleted, so the next OBJECTID is Len(layer) + 1.         *)
(***************************************************************************)
Row(oid, key, edit, atts) ==
    [OBJECTID |-> oid, ER_REPORT_NUMBER |-> key, EditDate |-> edit,
     attachments |-> atts]

\* a row of a layer of track points
PointRow(oid, observation, subject, edit) ==
    [OBJECTID |-> oid, ER_OBSERVATION_ID |-> observation, ER_SUBJECT_ID |-> subject,
     EditDate |-> edit, attachments |-> <<>>]

\* a row of a layer of tracks
TrackRow(oid, er_id, edit) ==
    [OBJECTID |-> oid, ER_ID |-> er_id, EditDate |-> edit, attachments |-> <<>>]

\* a millisecond timestamp is later than a whole-second date (ms > sec * 1000,
\* computed without leaving the 32-bit range)
MsAfter(ms, sec) ==
    \/ ms \div 1000 > sec
    \/ ms \div 1000 = sec /\ ms % 1000 # 0

\* events_layer.query(where = "ER_REPORT_NUMBER<>'' and EditDate > '<oldest_date>'")
QueryEvents(lay, oldest) ==
    LET keep == SeqOfSet({i \in 1..Len(lay) : MsAfter(lay[i].EditDate, oldest)})
    IN [j \in 1..Len(keep) |-> lay[keep[j]]]

\* the dictionary the for loop of _get_existing_esri_events builds: a later
\* row with the same report number overwrites an earlier one
ExistingIds(rows) ==
    [s \in {Str(rows[i].ER_REPORT_NUMBER) : i \in 1..Len(rows)} |->
        LET last == CHOOSE i \in 1..Len(rows) :
                        /\ Str(rows[i].ER_REPORT_NUMBER) = s
                        /\ \A j \in (i+1)..Len(rows) :
                              Str(rows[j].ER_REPORT_NUMBER) # s
        IN <<rows[last].OBJECTID, rows[last].EditDate>>]

\* what events_layer.query can do: return the rows, fail because the where
\* clause names a field the layer does not have ("'Invalid field:
\* ER_REPORT_NUMBER' parameter is invalid"), or fail in any other way
QueryOutcomes(fields) ==
    IF "ER_REPORT_NUMBER" \in fields THEN {"rows", "error"}
    ELSE {"invalid_field", "error"}

\* variant: every error of the query taken for an absent lookup field
ExistingEventsSwallowingErrors(lay, oldest, outcome) ==
    IF outcome = "rows"
    THEN [raised |-> FALSE, existing_ids |-> ExistingIds(QueryEvents(lay, oldest))]
    ELSE [raised |-> FALSE, existing_ids |-> EmptyDict]

\* _get_existing_esri_events(events_layer, oldest_date) under a query outcome:
\* the index it returns, or the error it raises again
_get_existing_esri_events(lay, oldest, outcome) ==
    IF outcome = "rows"
    THEN [raised |-> FALSE, existing_ids |-> ExistingIds(QueryEvents(lay, oldest))]
    ELSE IF outcome = "invalid_field"
    THEN [raised |-> FALSE, existing_ids |-> EmptyDict]
    ELSE [raised |-> TRUE, existing_ids |-> EmptyDict]

\* base_attributes of upsert_events_from_er, by name
base_attributes(incidents) ==
    <<"ER_REPORT_NUMBER", "ER_REPORT_TIME", "ER_REPORT_TITLE", "ER_REPORT_TYPE",
      "REPORTED_BY", "LATITUDE", "LONGITUDE">>
    \o (IF incidents THEN <<"PARENT_INCIDENT">> ELSE <<>>)

\* a layer that has every base attribute of upsert_events_from_er
ProvisionedFields == Range(base_attributes(TRUE))

\* _field_already_exists(field, esri_layer, additional_fields)
_field_already_exists(field, fields, additional_fields) ==
    \/ field \in fields
    \/ \E i \in 1..Len(additional_fields) : additional_fields[i][1] = field

\* new_fields of _ensure_attributes_in_layer(esri_layer, fields)
MissingFields(fields, wanted) ==
    SelectSeq(wanted, LAMBDA name : ~_field_already_exists(name, fields, <<>>))

\* esri_layer.manager.add_to_definition({'fields': new_fields}) with result
\* {'success': success}
add_to_definition(fields, names, success) ==
    IF success THEN fields \cup Range(names) ELSE fields

RECURSIVE ApplyAddsRegardless(_, _, _, _)
\* variant: a row is created for a feature whose result is a failure, too
ApplyAddsRegardless(lay, chunk, res, t) ==
    IF chunk = <<>> THEN lay
    ELSE ApplyAddsRegardless(
            Append(lay, Row(Len(lay) + 1,
                            IntOfStr(Head(chunk).attributes.ER_REPORT_NUMBER),
                            t * 1000, <<>>)),
            Tail(chunk), Tail(res), t)

RECURSIVE ApplyAdds(_, _, _, _)
\* esri_layer.edit_features(adds = chunk) with per-feature results res at time t
ApplyAdds(lay, chunk, res, t) ==
    IF chunk = <<>> THEN lay
    ELSE LET f == Head(chunk)
             row == IF "ER_OBSERVATION_ID" \in DOMAIN f.attributes
                    THEN PointRow(Len(lay) + 1, f.attributes.ER_OBSERVATION_ID,
                                  f.attributes.ER_SUBJECT_ID, t * 1000)
                    ELSE IF "ER_ID" \in DOMAIN f.attributes
                    THEN TrackRow(Len(lay) + 1, f.attributes.ER_ID, t * 1000)
                    ELSE Row(Len(lay) + 1, IntOfStr(f.attributes.ER_REPORT_NUMBER),
                             t * 1000, <<>>)
             lay1 == IF Head(res) THEN Append(lay, row) ELSE lay
         IN ApplyAdds(lay1, Tail(chunk), Tail(res), t)

RECURSIVE ApplyUpdates(_, _, _, _)
\* esri_layer.edit_features(updates = chunk) with per-feature results res at time t
ApplyUpdates(lay, chunk, res, t) ==
    IF chunk = <<>> THEN lay
    ELSE LET f == Head(chunk)
             lay1 == IF Head(res)
                     THEN [i \in 1..Len(lay) |->
                             IF lay[i].OBJECTID # f.attributes.OBJECTID
                             THEN lay[i]
                             ELSE IF "ER_ID" \in DOMAIN f.attributes
                             THEN [lay[i] EXCEPT !.ER_ID = f.attributes.ER_ID,
                                                 !.EditDate = t * 1000]
                             ELSE [lay[i] EXCEPT
                                     !.ER_REPORT_NUMBER =
                                         IntOfStr(f.attributes.ER_REPORT_NUMBER),
                                     !.EditDate = t * 1000]]
                     ELSE lay
         IN ApplyUpdates(lay1, Tail(chunk), Tail(res), t)

RowIndex(lay, oid) == CHOOSE i \in 1..Len(lay) : lay[i].OBJECTID = oid

\* esri_layer.attachments.get_list(oid)
get_list(lay, oid) == lay[RowIndex(lay, oid)].attachments

\* variant: a delete that removes nothing
KeepAttachment(atts, id) == atts

\* esri_layer.attachments.delete(oid, attachment_id)
DeleteAttachment(atts, id) == SelectSeq(atts, LAMBDA a : a.id # id)

NextAttachmentId(atts) ==
    1 + (IF atts = <<>> THEN 0
         ELSE CHOOSE m \in {atts[i].id : i \in 1..Len(atts)} :
                 \A j \in 1..Len(atts) : atts[j].id <= m)

\* esri_layer.attachments.add(oid, tmppath)
AddAttachment(atts, filename) ==
    Append(atts, [id |-> NextAttachmentId(atts), name |-> filename])

SetAttachments(lay, oid, atts) ==
    [lay EXCEPT ![RowIndex(lay, oid)].attachments = atts]

(***************************************************************************)
(* upsert_events_from_er: the per-event decision.                          *)
(***************************************************************************)
\* str(event['serial_number'])
KeyOf(event) == Str(event.serial_number)

\* dateparser.parse(event['updated_at']).timestamp() * 1000
er_update_time(event) == event.updated_at * 1000

\* variant: the comparison made inclusive
EsriIsNewerOrEqual(esri_update_time, er_time) ==
    esri_update_time >= (er_time + UPDATE_TIME_PADDING * 60 * 1000)

\* variant: the padding left out of the comparison
EsriIsNewerUnpadded(esri_update_time, er_time) == esri_update_time > er_time

\* esri_update_time > (er_update_time + self.UPDATE_TIME_PADDING * 60*1000)
EsriIsNewer(esri_update_time, er_time) ==
    esri_update_time > (er_time + UPDATE_TIME_PADDING * 60 * 1000)

\* the first continue of the loop: known key and the Esri row is newer
SkipAsNewer(event, existing) ==
    /\ KeyOf(event) \in DOMAIN existing
    /\ EsriIsNewer(existing[KeyOf(event)][2], er_update_time(event))

\* variant: collections skipped whatever include_incidents says
SkipAsCollectionAlways(incidents, event) == event.is_collection

\* variant: the negation of include_incidents lost
SkipAsCollectionInverted(incidents, event) == incidents /\ event.is_collection

\* not include_incidents and event.get('is_collection')
SkipAsCollection(incidents, event) == ~incidents /\ event.is_collection

\* feature = {"attributes": {'ER_REPORT_NUMBER': str(event['serial_number']), ...}}
NewFeature(event) == [attributes |-> [ER_REPORT_NUMBER |-> KeyOf(event)]]

\* variant: the EditDate slot of the index entry taken for the OBJECTID
ExistingEditDate(existing, key) == existing[key][2]

\* existing_events[str(event['serial_number'])][0]
ExistingObjectId(existing, key) == existing[key][1]

\* feature['attributes']['OBJECTID'] = existing_events[...][0]
WithObjectId(f, oid) == [attributes |-> Put(f.attributes, "OBJECTID", oid)]

NoFeature == [attributes |-> EmptyDict]

(***************************************************************************)
(* upsert_events_from_er: the translation of event_details.                *)
(***************************************************************************)
ER_TO_ESRI_FIELD_TYPE ==
    [string |-> "esriFieldTypeString", number |-> "esriFieldTypeDouble",
     default |-> "esriFieldTypeString"]

\* replaces -'s with _'s
_clean_field_name(field) == Replace(field, "-", "_")

_clean_field_value(value) == value

\* variant: the declared type left out of the name
FieldNameUntyped(field, field_type) == _clean_field_name(field)

\* self._clean_field_name(field + "_" + field_type)
FieldName(field, field_type) == _clean_field_name(field \o "_" \o field_type)

\* str(v) of an element
PyStr(v) == IF v.is_str THEN v.s ELSE Str(v.n)

\* variant: the substitution never applied
MapGetNothing(value_map, v) == v

\* field_def['value_map'].get(v, v)
MapGet(value_map, v) ==
    IF v.is_str /\ v.s \in DOMAIN value_map THEN Text(value_map[v.s]) ELSE v

\* field_value after "if(type(field_value) != list): field_value = [field_value]"
Coerce(raw) == IF raw.is_list THEN raw.items ELSE <<raw.value>>

\* field_value after the two loops over range(0, len(field_value)): strings
Translated(raw, field_def) ==
    LET field_value == Coerce(raw)
        mapped == IF Has(field_def, "value_map")
                  THEN [i \in 1..Len(field_value) |->
                           MapGet(field_def.value_map, field_value[i])]
                  ELSE field_value
    IN [i \in 1..Len(mapped) |-> _clean_field_value(PyStr(mapped[i]))]

\* variant: no field is ever queued
QueueNever(field_name, esri_type, title, fields, pending) == pending

\* variant: a field queued whether or not it exists already
QueueAlways(field_name, esri_type, title, fields, pending) ==
    Append(pending, <<field_name, esri_type, title>>)

\* if not(self._field_already_exists(...)): fields_to_add.append([...])
Queue(field_name, esri_type, title, fields, pending) ==
    IF ~_field_already_exists(field_name, fields, pending)
    THEN Append(pending, <<field_name, esri_type, title>>)
    ELSE pending

\* an iteration of the loop over event['event_details'].keys() for a field
\* with the definition field_def.  tr holds what the iteration can change: the
\* details of the event object (a list value is rewritten in place), the
\* attributes of the feature, and fields_to_add.
TranslateWith(tr, field, field_def, fields) ==
         LET field_type == Get(field_def, "type", "string")
             esri_type == Get(ER_TO_ESRI_FIELD_TYPE, field_type,
                              ER_TO_ESRI_FIELD_TYPE.default)
             field_name == FieldName(field, field_type)
             raw == tr.details.vals[field]
             strings == Translated(raw, field_def)
         IN [details |->
                IF raw.is_list
                THEN [tr.details EXCEPT
                        !.vals[field] =
                            List([i \in 1..Len(strings) |-> Text(strings[i])])]
                ELSE tr.details,
             attributes |-> Put(tr.attributes, field_name, Join(",", strings)),
             fields_to_add |-> Queue(field_name, esri_type,
                                     Get(field_def, "title", field),
                                     fields, tr.fields_to_add)]

\* variant: a field that is not in the field definitions kept as a string
TranslateOneKeepingUnknown(tr, field, field_defs, fields) ==
    TranslateWith(tr, field, Get(field_defs, field, EmptyDict), fields)

\* one iteration of the loop over event['event_details'].keys(): a field that
\* is not in the field definitions is skipped
TranslateOne(tr, field, field_defs, fields) ==
    IF ~Has(field_defs, field) THEN tr
    ELSE TranslateWith(tr, field, field_defs[field], fields)

RECURSIVE TranslateFrom(_, _, _, _, _)
\* the iterations of the loop from position i of keys on
TranslateFrom(tr, keys, i, field_defs, fields) ==
    IF i > Len(keys) THEN tr
    ELSE TranslateFrom(TranslateOne(tr, keys[i], field_defs, fields),
                       keys, i + 1, field_defs, fields)

NoFiles == [keys |-> <<>>, files |-> <<>>]

\* er_event_files[str(event['serial_number'])] = [{url, filename}, ...]
PutFiles(dict, key, files) ==
    [keys |-> IF key \in Range(dict.keys) THEN dict.keys ELSE Append(dict.keys, key),
     files |-> [k \in DOMAIN dict.files \cup {key} |->
                  IF k = key THEN files ELSE dict.files[k]]]

(***************************************************************************)
(* _chunk, _add_features, _update_features.                                *)
(***************************************************************************)
\* variant: a slice one element short, lst[i:i + chunk_size - 1]
ChunkAtShort(lst, i, size) == SubSeq(lst, i + 1, Min(i + size - 1, Len(lst)))

\* lst[i:i + chunk_size]
ChunkAt(lst, i, size) == SubSeq(lst, i + 1, Min(i + size, Len(lst)))

\* the next i of range(0, len(lst), chunk_size)
ChunkNext(i, size) == i + size

\* variant: every result counted, failed or not
CountResults(results) == Len(results)

\* the results with success == True
CountSuccess(results) == Cardinality({i \in 1..Len(results) : results[i]})

Results(n) == [1..n -> BOOLEAN]

(***************************************************************************)
(* Values of the locals while no call is running.                          *)
(***************************************************************************)
PassIdle ==
    /\ oldest_date = 0
    /\ include_attachments = FALSE
    /\ include_incidents = FALSE
    /\ er_events = <<>>
    /\ existing_events = <<>>
    /\ event_count = 0
    /\ features_to_add = <<>>
    /\ features_to_update = <<>>
    /\ er_event_files = NoFiles

UpsertIdle ==
    /\ chunk_size = 0
    /\ chunk_start = 0
    /\ calls = <<>>
    /\ added = 0
    /\ updated = 0

AttIdle ==
    /\ att_existing = <<>>
    /\ att_pos = 0
    /\ esri_object_id = 0
    /\ existing_attachments = <<>>
    /\ file_pos = 0
    /\ att_log = <<>>
    /\ att_done = {}

\* no call before this one
NoRun == [oldest_date |-> 0, calls |-> <<>>, ran |-> FALSE]

LateIdle ==
    /\ existing_tracks = EmptyDict
    /\ track_log = <<>>
    /\ prev_run = NoRun

PointsIdle ==
    /\ subjects = <<>>
    /\ subject_pos = 0
    /\ er_observations = <<>>
    /\ existing_points = EmptyDict
    /\ point_count = 0

FieldsIdle ==
    /\ field_calls = <<>>
    /\ query_log = <<>>
    /\ er_field_types = EmptyDict
    /\ schema_calls = <<>>
    /\ fields_to_add = <<>>
    /\ feature = NoFeature
    /\ field_pos = 0

\* every schema can be fetched and the layer has the base attributes
Provisioned ==
    /\ er_schemas = Schemas
    /\ layer_fields = ProvisionedFields

Init ==
    /\ now = 0 /\ ticks = 0 /\ reports = 0 /\ passes = 0
    /\ er = [k \in Keys |-> NoEvent]
    /\ layer = <<>>
    /\ pc = "idle"
    /\ caller = "none"
    /\ PassIdle /\ UpsertIdle /\ AttIdle /\ FieldsIdle /\ PointsIdle /\ LateIdle
    /\ Provisioned

(***************************************************************************)
(* The environment of the passes: the clock and the edits made in ER.      *)
(***************************************************************************)
Tick(d) ==
    /\ pc = "idle"
    /\ ticks < MaxTicks
    /\ now' = now + d
    /\ ticks' = ticks + 1
    /\ UNCHANGED <<reports, passes, er, layer, pc, caller, passVars, upsertVars, attVars,
                   moreVars>>

\* a new event is reported in ER
ERCreate(k, coll, n) ==
    /\ pc = "idle"
    /\ reports < MaxReports
    /\ er[k] = NoEvent
    /\ er' = [er EXCEPT ![k] = Event(k, now, coll, n)]
    /\ reports' = reports + 1
    /\ UNCHANGED <<now, ticks, passes, layer, pc, caller, passVars, upsertVars, attVars,
                   moreVars>>

\* an event is edited in ER: updated_at moves to now, the files may change
ERUpdate(k, n) ==
    /\ pc = "idle"
    /\ reports < MaxReports
    /\ er[k] # NoEvent
    /\ er' = [er EXCEPT ![k] = Event(k, now, er[k].is_collection, n)]
    /\ reports' = reports + 1
    /\ UNCHANGED <<now, ticks, passes, layer, pc, caller, passVars, upsertVars, attVars,
                   moreVars>>

(***************************************************************************)
(* upsert_events_from_er.                                                  *)
(***************************************************************************)
\* if(oldest_date == None): oldest_date = now - timedelta(days=30)
EffectiveOldest(od) ==
    IF od = None THEN now - DEFAULT_LOOKBACK_DAYS * 24 * 60 * 60 ELSE od.date

\* variant: the cache of field definitions never consulted
SchemaCachedNever(field_types, type) == FALSE

\* the negation of: event['event_type'] not in er_field_types
SchemaCached(field_types, type) == Has(field_types, type)

\* from the call to the head of the loop over er_events:
\* _ensure_attributes_in_layer (the result of add_to_definition is not looked
\* at), get_events, _get_existing_esri_events
StartPass(od, attachments, incidents) ==
    /\ pc = "idle"
    /\ passes < MaxPasses
    /\ passes' = passes + 1
    /\ caller' = "events"
    /\ oldest_date' = EffectiveOldest(od)
    /\ include_attachments' = attachments
    /\ include_incidents' = incidents
    /\ er_events' = get_events(EffectiveOldest(od))
    /\ \E success \in BOOLEAN, outcome \in {"rows", "invalid_field", "error"} :
          LET new_fields == MissingFields(layer_fields, base_attributes(incidents))
              fields == IF new_fields = <<>> THEN layer_fields
                        ELSE add_to_definition(layer_fields, new_fields, success)
              index == _get_existing_esri_events(layer, EffectiveOldest(od), outcome)
          IN /\ new_fields = <<>> => success
             /\ outcome \in QueryOutcomes(fields)
             /\ layer_fields' = fields
             /\ field_calls' =
                   IF new_fields = <<>> THEN field_calls
                   ELSE Append(field_calls, [site |-> "ensure", fields |-> new_fields,
                                             success |-> success])
             /\ query_log' = Append(query_log, outcome)
             /\ existing_events' = index.existing_ids
             /\ pc' = IF index.raised THEN "raised" ELSE "loop"
    /\ event_count' = 0
    /\ features_to_add' = <<>>
    /\ features_to_update' = <<>>
    /\ er_event_files' = NoFiles
    /\ er_field_types' = EmptyDict
    /\ schema_calls' = <<>>
    /\ fields_to_add' = <<>>
    /\ UNCHANGED <<now, ticks, reports, er, layer, upsertVars, attVars, er_schemas,
                   feature, field_pos, pointVars, lateVars>>

\* one iteration of the loop over er_events.  Of the feature's attributes the
\* state keeps ER_REPORT_NUMBER, OBJECTID and those translated from
\* event_details.  get_event_schema raises for a type without schema.
ProcessEvent ==
    /\ pc = "loop"
    /\ event_count < Len(er_events)
    /\ event_count' = event_count + 1
    /\ LET event == er_events[event_count + 1]
           key == KeyOf(event)
           type == event.event_type
           cached == SchemaCached(er_field_types, type)
       IN IF SkipAsNewer(event, existing_events)
             \/ SkipAsCollection(include_incidents, event)
          THEN UNCHANGED <<pc, er_events, features_to_add, features_to_update,
                           er_event_files, er_field_types, schema_calls,
                           fields_to_add>>
          ELSE IF ~cached /\ ~SchemaResolves(type)
          THEN /\ pc' = "raised"
               /\ schema_calls' = Append(schema_calls, type)
               /\ UNCHANGED <<er_events, features_to_add, features_to_update,
                               er_event_files, er_field_types, fields_to_add>>
          ELSE LET field_types ==
                       IF cached THEN er_field_types
                       ELSE Put(er_field_types, type,
                                _get_er_field_definitions(er_schemas[type]))
                   tr == TranslateFrom([details |-> event.event_details,
                                        attributes |-> NewFeature(event).attributes,
                                        fields_to_add |-> fields_to_add],
                                       event.event_details.keys, 1,
                                       field_types[type], layer_fields)
                   translated == [attributes |-> tr.attributes]
               IN /\ er_field_types' = field_types
                  /\ schema_calls' = IF cached THEN schema_calls
                                     ELSE Append(schema_calls, type)
                  /\ er_events' = [er_events EXCEPT
                                     ![event_count + 1].event_details = tr.details]
                  /\ fields_to_add' = tr.fields_to_add
                  /\ IF key \in DOMAIN existing_events
                     THEN /\ features_to_update' =
                                Append(features_to_update,
                                       WithObjectId(translated,
                                                    ExistingObjectId(existing_events, key)))
                          /\ UNCHANGED features_to_add
                     ELSE /\ features_to_add' = Append(features_to_add, translated)
                          /\ UNCHANGED features_to_update
                  /\ er_event_files' =
                        IF event.files # <<>>
                        THEN PutFiles(er_event_files, key, event.files)
                        ELSE er_event_files
                  /\ UNCHANGED pc
    /\ UNCHANGED <<envVars, layer, caller, oldest_date, include_attachments,
                   include_incidents, existing_events, upsertVars, attVars,
                   er_schemas, layer_fields, field_calls, query_log, feature,
                   field_pos, pointVars, lateVars>>

\* if(include_attachments): if(len(er_event_files) > 0): _replace_attachments(...)
AfterUpsert ==
    IF include_attachments /\ Len(er_event_files.keys) > 0 THEN "replace" ELSE "done"

\* the names _add_fields_to_layer submits for fields
NewFieldNames(fields) == [i \in 1..Len(fields) |-> _clean_field_name(fields[i][1])]

\* variant: a rejected flush that does not stop the pass
FlushRaisesNever(success) == FALSE

\* if(result['success'] != True): raise Exception(...)
FlushRaises(success) == success # TRUE

\* the loop is exhausted: _add_fields_to_layer when fields are pending, which
\* raises when they are rejected; then on to _upsert_features, or past it when
\* both lists are empty
EndLoop ==
    /\ pc = "loop"
    /\ event_count = Len(er_events)
    /\ \E success \in BOOLEAN :
          /\ fields_to_add = <<>> => success
          /\ IF fields_to_add = <<>>
             THEN UNCHANGED <<layer_fields, field_calls>>
             ELSE /\ layer_fields' = add_to_definition(layer_fields,
                                         NewFieldNames(fields_to_add), success)
                  /\ field_calls' =
                        Append(field_calls,
                               [site |-> "flush", fields |-> NewFieldNames(fields_to_add),
                                success |-> success])
          /\ IF fields_to_add # <<>> /\ FlushRaises(success)
             THEN /\ pc' = "raised"
                  /\ UNCHANGED chunk_size
             ELSE IF Len(features_to_add) > 0 \/ Len(features_to_update) > 0
             THEN /\ pc' = "add"
                  /\ chunk_size' = EVENT_CHUNK_SIZE
             ELSE /\ pc' = AfterUpsert
                  /\ UNCHANGED chunk_size
    /\ UNCHANGED <<envVars, layer, caller, passVars, chunk_start, calls, added,
                   updated, attVars, er_schemas, query_log, er_field_types,
                   schema_calls, fields_to_add, feature, field_pos, pointVars, lateVars>>

(***************************************************************************)
(* _upsert_features: _add_features, then _update_features.                 *)
(***************************************************************************)
\* one iteration of the loop of _add_features: one edit_features(adds = chunk)
AddChunk ==
    /\ pc = "add"
    /\ chunk_start < Len(features_to_add)
    /\ LET chunk == ChunkAt(features_to_add, chunk_start, chunk_size)
       IN \E results \in Results(Len(chunk)) :
            /\ layer' = ApplyAdds(layer, chunk, results, now)
            /\ calls' = Append(calls, [kind |-> "adds", features |-> chunk,
                                       results |-> results])
            /\ added' = added + CountSuccess(results)
    /\ chunk_start' = ChunkNext(chunk_start, chunk_size)
    /\ UNCHANGED <<envVars, pc, caller, passVars, chunk_size, updated, attVars,
                   moreVars>>

\* _add_features returns; _update_features starts
AddReturn ==
    /\ pc = "add"
    /\ chunk_start >= Len(features_to_add)
    /\ pc' = "update"
    /\ chunk_start' = 0
    /\ UNCHANGED <<envVars, layer, caller, passVars, chunk_size, calls, added,
                   updated, attVars,
                   moreVars>>

\* one iteration of the loop of _update_features
UpdateChunk ==
    /\ pc = "update"
    /\ chunk_start < Len(features_to_update)
    /\ LET chunk == ChunkAt(features_to_update, chunk_start, chunk_size)
       IN \E results \in Results(Len(chunk)) :
            /\ layer' = ApplyUpdates(layer, chunk, results, now)
            /\ calls' = Append(calls, [kind |-> "updates", features |-> chunk,
                                       results |-> results])
            /\ updated' = updated + CountSuccess(results)
    /\ chunk_start' = ChunkNext(chunk_start, chunk_size)
    /\ UNCHANGED <<envVars, pc, caller, passVars, chunk_size, added, attVars,
                   moreVars>>

\* _update_features and _upsert_features return (added, updated)
UpdateReturn ==
    /\ pc = "update"
    /\ chunk_start >= Len(features_to_update)
    /\ pc' = IF caller = "events" THEN AfterUpsert
             ELSE IF caller = "points" THEN "subjects"
             ELSE IF caller = "tracks" THEN "done" ELSE "returned"
    /\ chunk_start' = 0
    /\ UNCHANGED <<envVars, layer, caller, passVars, chunk_size, calls, added,
                   updated, attVars,
                   moreVars>>

(***************************************************************************)
(* _replace_attachments(esri_layer, oldest_date, event_files).             *)
(***************************************************************************)
\* existing_events = self._get_existing_esri_events(esri_layer, oldest_date)
ReplaceStart ==
    /\ pc = "replace"
    /\ \E outcome \in QueryOutcomes(layer_fields) :
          LET index == _get_existing_esri_events(layer, oldest_date, outcome)
          IN /\ query_log' = Append(query_log, outcome)
             /\ att_existing' = index.existing_ids
             /\ pc' = IF index.raised THEN "raised" ELSE "next_key"
    /\ att_pos' = 0
    /\ UNCHANGED <<envVars, layer, caller, passVars, upsertVars, esri_object_id,
                   existing_attachments, file_pos, att_log, att_done,
                   er_schemas, layer_fields, field_calls, er_field_types,
                   schema_calls, fields_to_add, feature, field_pos, pointVars, lateVars>>

\* head of the loop over event_files.keys(): the lookup of the feature and
\* attachments.get_list; a key without a feature in the index is a KeyError
LookupFeature ==
    /\ pc = "next_key"
    /\ att_pos < Len(er_event_files.keys)
    /\ LET event == er_event_files.keys[att_pos + 1]
       IN IF event \in DOMAIN att_existing
          THEN /\ esri_object_id' = ExistingObjectId(att_existing, event)
               /\ existing_attachments' =
                     get_list(layer, ExistingObjectId(att_existing, event))
               /\ att_log' = Append(att_log, [op |-> "list", key |-> event,
                     oid |-> ExistingObjectId(att_existing, event),
                     what |-> Len(get_list(layer, ExistingObjectId(att_existing, event)))])
               /\ file_pos' = 0
               /\ pc' = "files"
          ELSE /\ pc' = "raised"
               /\ UNCHANGED <<esri_object_id, existing_attachments, att_log, file_pos>>
    /\ UNCHANGED <<envVars, layer, caller, passVars, upsertVars, att_existing,
                   att_pos, att_done,
                   moreVars>>

\* one iteration of the loop over existing_attachments
DeleteExisting ==
    /\ pc = "files"
    /\ existing_attachments # <<>>
    /\ LET existing_file == Head(existing_attachments)
       IN /\ layer' = SetAttachments(layer, esri_object_id,
                         DeleteAttachment(get_list(layer, esri_object_id),
                                          existing_file.id))
          /\ att_log' = Append(att_log,
                [op |-> "delete", key |-> er_event_files.keys[att_pos + 1],
                 oid |-> esri_object_id, what |-> existing_file.id])
    /\ existing_attachments' = Tail(existing_attachments)
    /\ UNCHANGED <<envVars, pc, caller, passVars, upsertVars, att_existing, att_pos,
                   esri_object_id, file_pos, att_done,
                   moreVars>>

\* one iteration of the loop over event_files[event]: download, write, add.
\* das_client.get_file or attachments.add may raise; nothing catches it.
AddFile ==
    /\ pc = "files"
    /\ existing_attachments = <<>>
    /\ LET event == er_event_files.keys[att_pos + 1]
           files == er_event_files.files[event]
       IN /\ file_pos < Len(files)
          /\ \E outcome \in {"add", "download_failed", "upload_failed"} :
                /\ att_log' = Append(att_log,
                      [op |-> outcome, key |-> event, oid |-> esri_object_id,
                       what |-> files[file_pos + 1].filename])
                /\ IF outcome = "add"
                   THEN /\ layer' = SetAttachments(layer, esri_object_id,
                                       AddAttachment(get_list(layer, esri_object_id),
                                                     files[file_pos + 1].filename))
                        /\ file_pos' = file_pos + 1
                        /\ UNCHANGED pc
                   ELSE /\ pc' = "raised"
                        /\ UNCHANGED <<layer, file_pos>>
    /\ UNCHANGED <<envVars, caller, passVars, upsertVars, att_existing, att_pos,
                   esri_object_id, existing_attachments, att_done,
                   moreVars>>

\* the files of the current key are exhausted: next key
KeyDone ==
    /\ pc = "files"
    /\ existing_attachments = <<>>
    /\ LET event == er_event_files.keys[att_pos + 1]
       IN /\ file_pos = Len(er_event_files.files[event])
          /\ att_done' = att_done \cup {event}
    /\ att_pos' = att_pos + 1
    /\ pc' = "next_key"
    /\ UNCHANGED <<envVars, layer, caller, passVars, upsertVars, att_existing,
                   esri_object_id, existing_attachments, file_pos, att_log,
                   moreVars>>

\* the keys are exhausted: tmpdir.cleanup() and return
ReplaceReturn ==
    /\ pc = "next_key"
    /\ att_pos = Len(er_event_files.keys)
    /\ pc' = IF caller = "events" THEN "done" ELSE "returned"
    /\ UNCHANGED <<envVars, layer, caller, passVars, upsertVars, attVars,
                   moreVars>>

(***************************************************************************)
(* upsert_track_points_from_er(esri_layer, oldest_date).  A subject is     *)
(* [id, tracks_available, last_position_date (None or a date)], an         *)
(* observation is [id].                                                    *)
(***************************************************************************)
NoSubject == "None"

Subject(id, tracks, last) ==
    [id |-> id, tracks_available |-> tracks, last_position_date |-> last]

\* base_attributes of upsert_track_points_from_er, by name
point_base_attributes ==
    <<"ER_OBSERVATION_ID", "SUBJECT_NAME", "OBSERVATION_TIME", "ER_SUBJECT_ID",
      "LATITUDE", "LONGITUDE">>

\* the three continue statements at the head of the loop over subjects
SkipSubject(subject, oldest) ==
    \/ ~subject.tracks_available
    \/ subject.last_position_date = None
    \/ subject.last_position_date.date < oldest

\* points_layer.query(where = "EditDate > '<oldest_date>' and ER_SUBJECT_ID = '<id>'")
QueryPoints(lay, oldest, er_subject_id) ==
    LET keep == SeqOfSet({i \in 1..Len(lay) :
                            /\ MsAfter(lay[i].EditDate, oldest)
                            /\ er_subject_id # NoSubject
                                  => lay[i].ER_SUBJECT_ID = er_subject_id})
    IN [j \in 1..Len(keep) |-> lay[keep[j]]]

\* what points_layer.query can do: return the rows or fail; it fails when the
\* layer lacks a field the where clause or the index needs
PointQueryOutcomes(fields) ==
    IF {"ER_SUBJECT_ID", "ER_OBSERVATION_ID"} \subseteq fields
    THEN {"rows", "error"} ELSE {"error"}

\* _get_existing_esri_points(points_layer, oldest_date, er_subject_id) under a
\* query outcome: a later row with the same observation id overwrites an
\* earlier one; an error of the query is not caught
_get_existing_esri_points(lay, oldest, er_subject_id, outcome) ==
    IF outcome = "rows"
    THEN LET rows == QueryPoints(lay, oldest, er_subject_id)
         IN [raised |-> FALSE,
             existing_ids |->
                [s \in {Str(rows[i].ER_OBSERVATION_ID) : i \in 1..Len(rows)} |->
                    LET last == CHOOSE i \in 1..Len(rows) :
                                    /\ Str(rows[i].ER_OBSERVATION_ID) = s
                                    /\ \A j \in (i+1)..Len(rows) :
                                          Str(rows[j].ER_OBSERVATION_ID) # s
                    IN <<rows[last].OBJECTID, rows[last].EditDate>>]]
    ELSE [raised |-> TRUE, existing_ids |-> EmptyDict]

\* variant: no observation is taken to exist
PointExistsNever(point, existing) == FALSE

\* str(point['id']) in existing_points.keys()
PointExists(point, existing) == Str(point.id) \in DOMAIN existing

\* the feature of an observation; of its attributes the state keeps the ids
PointFeature(point, subject) ==
    [attributes |-> [ER_OBSERVATION_ID |-> point.id, ER_SUBJECT_ID |-> subject.id]]

\* the ids an observation can have
PointIds == {1, 2}

\* what get_subject_observations can return
ObservationChoices ==
    UNION {[1..n -> {[id |-> i] : i \in PointIds}] : n \in 0..MaxPoints}

\* what get_subjects can return: one or two subjects
SubjectChoices ==
    LET first == {Subject("s1", tracks, last) :
                    tracks \in BOOLEAN,
                    last \in {None, Date(1), Date(now)}}
    IN {<<s>> : s \in first}
       \cup {<<s, Subject("s2", TRUE, Date(now))>> : s \in first}

\* from the call to the head of the loop over subjects:
\* _ensure_attributes_in_layer (the result of add_to_definition is not looked
\* at) and get_subjects
StartPoints(od) ==
    /\ pc = "idle"
    /\ passes < MaxPasses
    /\ passes' = passes + 1
    /\ caller' = "points"
    /\ oldest_date' = EffectiveOldest(od)
    /\ \E success \in BOOLEAN :
          LET new_fields == MissingFields(layer_fields, point_base_attributes)
          IN /\ new_fields = <<>> => success
             /\ layer_fields' = IF new_fields = <<>> THEN layer_fields
                                ELSE add_to_definition(layer_fields, new_fields, success)
             /\ field_calls' =
                   IF new_fields = <<>> THEN field_calls
                   ELSE Append(field_calls, [site |-> "ensure", fields |-> new_fields,
                                             success |-> success])
    /\ \E subs \in SubjectChoices : subjects' = subs
    /\ subject_pos' = 0
    /\ pc' = "subjects"
    /\ UNCHANGED <<now, ticks, reports, er, layer, include_attachments,
                   include_incidents, er_events, existing_events, event_count,
                   features_to_add, features_to_update, er_event_files, upsertVars,
                   attVars, er_schemas, query_log, er_field_types, schema_calls,
                   fields_to_add, feature, field_pos, er_observations,
                   existing_points, point_count, lateVars>>

\* head of the loop over subjects: the continue statements,
\* get_subject_observations and _get_existing_esri_points
BeginSubject ==
    /\ pc = "subjects"
    /\ subject_pos < Len(subjects)
    /\ subject_pos' = subject_pos + 1
    /\ LET subject == subjects[subject_pos + 1]
       IN IF SkipSubject(subject, oldest_date)
          THEN UNCHANGED <<pc, query_log, er_observations, existing_points,
                           features_to_add, point_count>>
          ELSE \E observations \in ObservationChoices,
                  outcome \in PointQueryOutcomes(layer_fields) :
                  LET index == _get_existing_esri_points(layer, oldest_date,
                                                         subject.id, outcome)
                  IN /\ er_observations' = observations
                     /\ query_log' = Append(query_log, outcome)
                     /\ existing_points' = index.existing_ids
                     /\ pc' = IF index.raised THEN "raised" ELSE "points"
                     /\ features_to_add' = <<>>
                     /\ point_count' = 0
    /\ UNCHANGED <<envVars, layer, caller, oldest_date, include_attachments,
                   include_incidents, er_events, existing_events, event_count,
                   features_to_update, er_event_files, upsertVars, attVars,
                   er_schemas, layer_fields, field_calls, er_field_types,
                   schema_calls, fields_to_add, feature, field_pos, subjects,
                   lateVars>>

\* one iteration of the loop over er_observations
ProcessPoint ==
    /\ pc = "points"
    /\ point_count < Len(er_observations)
    /\ point_count' = point_count + 1
    /\ LET point == er_observations[point_count + 1]
       IN features_to_add' =
             IF PointExists(point, existing_points) THEN features_to_add
             ELSE Append(features_to_add, PointFeature(point, subjects[subject_pos]))
    /\ UNCHANGED <<envVars, layer, pc, caller, oldest_date, include_attachments,
                   include_incidents, er_events, existing_events, event_count,
                   features_to_update, er_event_files, upsertVars, attVars,
                   fieldVars, subjects, subject_pos, er_observations,
                   existing_points, lateVars>>

\* if(len(features_to_add) > 0): _upsert_features(features_to_add, [], esri_layer, 50)
EndSubject ==
    /\ pc = "points"
    /\ point_count = Len(er_observations)
    /\ IF Len(features_to_add) > 0
       THEN /\ pc' = "add"
            /\ features_to_update' = <<>>
            /\ chunk_size' = POINT_CHUNK_SIZE
            /\ chunk_start' = 0
            /\ added' = 0
            /\ updated' = 0
       ELSE /\ pc' = "subjects"
            /\ UNCHANGED <<features_to_update, chunk_size, chunk_start, added, updated>>
    /\ UNCHANGED <<envVars, layer, caller, oldest_date, include_attachments,
                   include_incidents, er_events, existing_events, event_count,
                   features_to_add, er_event_files, calls, attVars, moreVars>>

\* the subjects are exhausted: return
EndPoints ==
    /\ pc = "subjects"
    /\ subject_pos = Len(subjects)
    /\ pc' = "done"
    /\ UNCHANGED <<envVars, layer, caller, passVars, upsertVars, attVars, moreVars>>

(***************************************************************************)
(* upsert_tracks_from_er(esri_layer, since).  A track feature of ER is     *)
(* [geometry, coordinates]: whether it has a geometry, and the coordinates *)
(* of the geometry (0 for none).                                           *)
(***************************************************************************)
NoGeometry == [geometry |-> FALSE, coordinates |-> 0]

NoCoordinates == [geometry |-> TRUE, coordinates |-> 0]

Line(coordinates) == [geometry |-> TRUE, coordinates |-> coordinates]

\* the fields upsert_tracks_from_er ensures, by name
track_base_attributes == <<"ER_ID", "SUBJECT_NAME">>

\* what esri_layer.query can do for the index of tracks
TrackQueryOutcomes == {"rows", "error"}

\* _get_existing_esri_tracks(esri_layer) under a query outcome.  The where
\* clause "'ER_ID'<>''" compares two literals and holds for every row; a
\* later row with the same ER_ID overwrites an earlier one; an error of the
\* query is not caught
_get_existing_esri_tracks(lay, outcome) ==
    IF outcome = "rows"
    THEN [raised |-> FALSE,
          existing_ids |->
             [id \in {lay[i].ER_ID : i \in 1..Len(lay)} |->
                 lay[CHOOSE i \in 1..Len(lay) :
                        /\ lay[i].ER_ID = id
                        /\ \A j \in (i+1)..Len(lay) : lay[j].ER_ID # id].OBJECTID]]
    ELSE [raised |-> TRUE, existing_ids |-> EmptyDict]

\* the two continue statements at the head of the loop over subjects; cutoff
\* is now - UPDATE_TIME_PADDING minutes
SkipTrackSubject(subject, existing, t) ==
    \/ subject.last_position_date = None
    \/ /\ subject.id \in DOMAIN existing
       /\ subject.last_position_date.date < t - PaddingSeconds

\* the negation of the test at the head of the loop over results['features']
HasCoordinates(track) == track.geometry /\ track.coordinates # 0

\* variant: no subject is taken to have a track in the layer
TrackExistsNever(subject, existing) == FALSE

\* str(subject['id']) in existing_tracks.keys()
TrackExists(subject, existing) == subject.id \in DOMAIN existing

\* the polyline of a track feature; of its attributes the state keeps ER_ID
Polyline(track, subject) ==
    [geometry |-> [paths |-> <<track.coordinates>>],
     attributes |-> [ER_ID |-> subject.id]]

RECURSIVE TracksFrom(_, _, _, _, _)
\* the loop over results['features'] from position i on; lists is
\* [add, update]
TracksFrom(lists, tracks, i, subject, existing) ==
    IF i > Len(tracks) THEN lists
    ELSE LET track == tracks[i]
             polyline == Polyline(track, subject)
             next == IF ~HasCoordinates(track) THEN lists
                     ELSE IF TrackExists(subject, existing)
                     THEN [lists EXCEPT
                             !.update =
                                Append(@, [polyline EXCEPT
                                             !.attributes =
                                                Put(@, "OBJECTID",
                                                    existing[subject.id])])]
                     ELSE [lists EXCEPT !.add = Append(@, polyline)]
         IN TracksFrom(next, tracks, i + 1, subject, existing)

\* what get_subject_tracks can return
TrackChoices ==
    UNION {[1..n -> {NoGeometry, NoCoordinates, Line(1)}] : n \in 0..MaxTracks}

\* what get_subjects can return for the tracks: one or two subjects
TrackSubjectChoices ==
    LET first == {Subject("s1", TRUE, last) :
                    last \in {None, Date(0), Date(now)}}
    IN {<<s>> : s \in first}
       \cup {<<s, Subject("s2", TRUE, Date(now))>> : s \in first}

\* from the call to the head of the loop over subjects:
\* _ensure_attributes_in_layer (the result of add_to_definition is not looked
\* at), get_subjects and _get_existing_esri_tracks
StartTracks ==
    /\ pc = "idle"
    /\ passes < MaxPasses
    /\ passes' = passes + 1
    /\ caller' = "tracks"
    /\ \E success \in BOOLEAN :
          LET new_fields == MissingFields(layer_fields, track_base_attributes)
          IN /\ new_fields = <<>> => success
             /\ layer_fields' = IF new_fields = <<>> THEN layer_fields
                                ELSE add_to_definition(layer_fields, new_fields, success)
             /\ field_calls' =
                   IF new_fields = <<>> THEN field_calls
                   ELSE Append(field_calls, [site |-> "ensure", fields |-> new_fields,
                                             success |-> success])
    /\ \E subs \in TrackSubjectChoices : subjects' = subs
    /\ \E outcome \in TrackQueryOutcomes :
          LET index == _get_existing_esri_tracks(layer, outcome)
          IN /\ query_log' = Append(query_log, outcome)
             /\ existing_tracks' = index.existing_ids
             /\ pc' = IF index.raised THEN "raised" ELSE "tracks"
    /\ subject_pos' = 0
    /\ features_to_add' = <<>>
    /\ features_to_update' = <<>>
    /\ track_log' = <<>>
    /\ UNCHANGED <<now, ticks, reports, er, layer, oldest_date, include_attachments,
                   include_incidents, er_events, existing_events, event_count,
                   er_event_files, upsertVars, attVars, er_schemas, er_field_types,
                   schema_calls, fields_to_add, feature, field_pos, er_observations,
                   existing_points, point_count, prev_run>>

\* one iteration of the loop over subjects: the continue statements,
\* get_subject_tracks and the loop over results['features']
ProcessSubject ==
    /\ pc = "tracks"
    /\ subject_pos < Len(subjects)
    /\ subject_pos' = subject_pos + 1
    /\ LET subject == subjects[subject_pos + 1]
       IN IF SkipTrackSubject(subject, existing_tracks, now)
          THEN UNCHANGED <<track_log, features_to_add, features_to_update>>
          ELSE \E results \in TrackChoices :
                  LET lists == TracksFrom([add |-> features_to_add,
                                           update |-> features_to_update],
                                          results, 1, subject, existing_tracks)
                  IN /\ track_log' = Append(track_log, [subject |-> subject.id,
                                                        features |-> results])
                     /\ features_to_add' = lists.add
                     /\ features_to_update' = lists.update
    /\ UNCHANGED <<envVars, layer, pc, caller, oldest_date, include_attachments,
                   include_incidents, er_events, existing_events, event_count,
                   er_event_files, upsertVars, attVars, fieldVars, subjects,
                   er_observations, existing_points, point_count, existing_tracks,
                   prev_run>>

\* the subjects are exhausted:
\* _upsert_features(features_to_add, features_to_update, esri_layer, 2)
EndTracks ==
    /\ pc = "tracks"
    /\ subject_pos = Len(subjects)
    /\ IF Len(features_to_add) > 0 \/ Len(features_to_update) > 0
       THEN /\ pc' = "add"
            /\ chunk_size' = TRACK_CHUNK_SIZE
       ELSE /\ pc' = "done"
            /\ UNCHANGED chunk_size
    /\ UNCHANGED <<envVars, layer, caller, passVars, chunk_start, calls, added,
                   updated, attVars, moreVars>>

(***************************************************************************)
(* The end of a pass.                                                      *)
(***************************************************************************)
ResetLocals ==
    /\ pc' = "idle"
    /\ caller' = "none"
    /\ oldest_date' = 0
    /\ include_attachments' = FALSE
    /\ include_incidents' = FALSE
    /\ er_events' = <<>>
    /\ existing_events' = <<>>
    /\ event_count' = 0
    /\ features_to_add' = <<>>
    /\ features_to_update' = <<>>
    /\ er_event_files' = NoFiles
    /\ chunk_size' = 0
    /\ chunk_start' = 0
    /\ calls' = <<>>
    /\ added' = 0
    /\ updated' = 0
    /\ att_existing' = <<>>
    /\ att_pos' = 0
    /\ esri_object_id' = 0
    /\ existing_attachments' = <<>>
    /\ file_pos' = 0
    /\ att_log' = <<>>
    /\ att_done' = {}
    /\ field_calls' = <<>>
    /\ query_log' = <<>>
    /\ er_field_types' = EmptyDict
    /\ schema_calls' = <<>>
    /\ fields_to_add' = <<>>
    /\ feature' = NoFeature
    /\ field_pos' = 0
    /\ subjects' = <<>>
    /\ subject_pos' = 0
    /\ er_observations' = <<>>
    /\ existing_points' = EmptyDict
    /\ point_count' = 0
    /\ existing_tracks' = EmptyDict
    /\ track_log' = <<>>
    /\ prev_run' = [oldest_date |-> oldest_date, calls |-> calls, ran |-> TRUE]
    /\ UNCHANGED <<envVars, layer, er_schemas, layer_fields>>

\* the pass returned or raised: the process ends
PassEnds ==
    /\ caller = "events"
    /\ pc \in {"done", "raised"}
    /\ ResetLocals

\* the process is stopped from outside in the middle of a pass
Interrupt ==
    /\ caller = "events"
    /\ pc \notin {"idle", "done", "raised"}
    /\ ResetLocals

Next ==
    \/ \E d \in TickSteps : Tick(d)
    \/ \E k \in Keys, coll \in BOOLEAN, n \in 0..MaxFiles : ERCreate(k, coll, n)
    \/ \E k \in Keys, n \in 0..MaxFiles : ERUpdate(k, n)
    \/ \E od \in {None, Date(now - CallerLookback)}, attachments \in BOOLEAN,
          incidents \in BOOLEAN : StartPass(od, attachments, incidents)
    \/ ProcessEvent
    \/ EndLoop
    \/ AddChunk
    \/ AddReturn
    \/ UpdateChunk
    \/ UpdateReturn
    \/ ReplaceStart
    \/ LookupFeature
    \/ DeleteExisting
    \/ AddFile
    \/ KeyDone
    \/ ReplaceReturn
    \/ PassEnds
    \/ Interrupt

Spec == Init /\ [][Next]_vars

(***************************************************************************)
(* SpecReconcile: the reconciliation loop of one pass (the call up to the  *)
(* end of the loop over er_events; the phases after it leave               *)
(* features_to_add and features_to_update alone).  The initial states give *)
(* every key no event or an event updated at 0 or at the start of the      *)
(* pass, and no row or a row last edited one millisecond before, exactly   *)
(* at, or one millisecond after (updated_at = 0) + padding.                *)
(***************************************************************************)
PaddingMs == UPDATE_TIME_PADDING * 60 * 1000

EditDateChoices == {PaddingMs - 1, PaddingMs, PaddingMs + 1}

StartOfPass == PaddingSeconds + 1

EventChoices(k) ==
    {NoEvent} \cup {Event(k, t, coll, n) :
                      t \in {0, StartOfPass}, coll \in BOOLEAN, n \in {0, MaxFiles}}

\* the layer holding, in ascending key order, one row for each key k with
\* edits[k] # 0, last edited at edits[k] and carrying atts[k] attachments
LayerOf(edits, atts) ==
    LET ks == SeqOfSet({k \in DOMAIN edits : edits[k] # 0})
    IN [i \in 1..Len(ks) |->
          Row(i, ks[i], edits[ks[i]],
              [j \in 1..atts[ks[i]] |-> [id |-> j, name |-> j]])]

InitReconcile ==
    /\ now = StartOfPass /\ ticks = 0 /\ reports = 0 /\ passes = 0
    /\ \E events \in [Keys -> UNION {EventChoices(k) : k \in Keys}] :
          /\ \A k \in Keys : events[k] \in EventChoices(k)
          /\ er = events
    /\ \E edits \in [Keys -> {0} \cup EditDateChoices] :
          layer = LayerOf(edits, [k \in Keys |-> 0])
    /\ pc = "idle"
    /\ caller = "none"
    /\ PassIdle /\ UpsertIdle /\ AttIdle /\ FieldsIdle /\ PointsIdle /\ LateIdle
    /\ Provisioned

NextReconcile ==
    \/ \E od \in {None, Date(now - CallerLookback)}, attachments \in BOOLEAN,
          incidents \in BOOLEAN : StartPass(od, attachments, incidents)
    \/ ProcessEvent
    \/ EndLoop

SpecReconcile == InitReconcile /\ [][NextReconcile]_vars

(***************************************************************************)
(* SpecUpsert: one call _upsert_features(add_features, update_features,    *)
(* esri_layer, chunk_size).  Feature i of add_features has report number   *)
(* i; feature i of update_features targets row i of the layer.             *)
(***************************************************************************)
InitUpsert ==
    /\ now = 1 /\ ticks = 0 /\ reports = 0 /\ passes = 0
    /\ er = [k \in Keys |-> NoEvent]
    /\ pc = "add"
    /\ caller = "direct"
    /\ oldest_date = 0
    /\ include_attachments = FALSE
    /\ include_incidents = FALSE
    /\ er_events = <<>>
    /\ existing_events = <<>>
    /\ event_count = 0
    /\ er_event_files = NoFiles
    /\ \E n \in 0..MaxAdds :
          features_to_add = [i \in 1..n |-> [attributes |-> [ER_REPORT_NUMBER |-> Str(i)]]]
    /\ \E m \in 0..MaxUpdates :
          /\ features_to_update =
                [i \in 1..m |-> [attributes |-> [ER_REPORT_NUMBER |-> Str(i),
                                                 OBJECTID |-> i]]]
          /\ layer = [i \in 1..m |-> Row(i, i, 0, <<>>)]
    /\ chunk_size \in 1..MaxChunk
    /\ chunk_start = 0
    /\ calls = <<>>
    /\ added = 0
    /\ updated = 0
    /\ AttIdle /\ FieldsIdle /\ PointsIdle /\ LateIdle
    /\ Provisioned

NextUpsert ==
    \/ AddChunk
    \/ AddReturn
    \/ UpdateChunk
    \/ UpdateReturn

SpecUpsert == InitUpsert /\ [][NextUpsert]_vars

(***************************************************************************)
(* SpecAttach: one call _replace_attachments(esri_layer, oldest_date,      *)
(* event_files).  Every key has no row or a row with 0..MaxAttachments     *)
(* attachments; event_files holds any subset of the keys, each with        *)
(* 0..MaxAttachments desired files.                                        *)
(***************************************************************************)
\* the dictionary with the keys of ks (ascending), key k with files[k] files
FilesDict(ks, files) ==
    LET order == SeqOfSet(ks)
    IN [keys |-> [i \in 1..Len(order) |-> Str(order[i])],
        files |-> [s \in {Str(k) : k \in ks} |-> FileList(files[IntOfStr(s)])]]

InitAttach ==
    /\ now = 1 /\ ticks = 0 /\ reports = 0 /\ passes = 0
    /\ er = [k \in Keys |-> NoEvent]
    /\ pc = "replace"
    /\ caller = "direct"
    /\ oldest_date = 0
    /\ include_attachments = TRUE
    /\ include_incidents = FALSE
    /\ er_events = <<>>
    /\ existing_events = <<>>
    /\ event_count = 0
    /\ features_to_add = <<>>
    /\ features_to_update = <<>>
    /\ \E rows \in [Keys -> BOOLEAN], atts \in [Keys -> 0..MaxAttachments] :
          /\ \A k \in Keys : ~rows[k] => atts[k] = 0
          /\ layer = LayerOf([k \in Keys |-> IF rows[k] THEN 1000 ELSE 0], atts)
    /\ \E ks \in SUBSET Keys, files \in [Keys -> 0..MaxAttachments] :
          /\ \A k \in Keys \ ks : files[k] = 0
          /\ er_event_files = FilesDict(ks, files)
    /\ UpsertIdle /\ AttIdle /\ FieldsIdle /\ PointsIdle /\ LateIdle
    /\ Provisioned

NextAttach ==
    \/ ReplaceStart
    \/ LookupFeature
    \/ DeleteExisting
    \/ AddFile
    \/ KeyDone
    \/ ReplaceReturn

SpecAttach == InitAttach /\ [][NextAttach]_vars

(***************************************************************************)
(* SpecPass: one pass of upsert_events_from_er with attachments, from the  *)
(* call to its return or its raise.  Every key has no event or an event of *)
(* either type, without details or with a count, a list of species, a      *)
(* herd-id and a herd_id; the event of key 1 carries files.  Either schema may be missing in ER.  *)
(* The layer is new (no field, no row), or has the base attributes, with   *)
(* or without the field species_string, and with or without a row for key  *)
(* 1 that holds an attachment.                                             *)
(***************************************************************************)
FullDetails ==
    WithDetail(WithDetail(WithDetail(Detail("count", Scalar(Number(3))),
                                     "species", List(<<Text("a"), Text("b")>>)),
                          "herd-id", Scalar(Number(7))),
               "herd_id", Scalar(Text("h")))

DetailChoices == {NoDetails, FullDetails}

EventChoicesPass(k) ==
    {NoEvent} \cup {EventOf(k, StartOfPass, FALSE, IF k = 1 THEN MaxFiles ELSE 0,
                            type, details) :
                      type \in EventTypes, details \in DetailChoices}
    \cup (IF k = 2
          THEN {EventOf(k, StartOfPass, TRUE, MaxFiles, "sighting", FullDetails)}
          ELSE {})

InitPass ==
    /\ now = StartOfPass /\ ticks = 0 /\ reports = 0 /\ passes = 0
    /\ \E events \in [Keys -> UNION {EventChoicesPass(k) : k \in Keys}] :
          /\ \A k \in Keys : events[k] \in EventChoicesPass(k)
          /\ er = events
    /\ \E down \in SUBSET EventTypes :
          er_schemas = [type \in EventTypes |->
                          IF type \in down THEN NoSchema ELSE Schemas[type]]
    /\ \/ /\ layer = <<>>
          /\ layer_fields = {}
       \/ /\ \E row \in BOOLEAN :
                layer = LayerOf([k \in Keys |-> IF k = 1 /\ row THEN PaddingMs ELSE 0],
                                [k \in Keys |-> IF k = 1 /\ row THEN 1 ELSE 0])
          /\ \E extra \in {{}, {"species_string"}} :
                layer_fields = ProvisionedFields \cup extra
    /\ pc = "idle"
    /\ caller = "none"
    /\ PassIdle /\ UpsertIdle /\ AttIdle /\ FieldsIdle /\ PointsIdle /\ LateIdle

NextPass ==
    \/ \E incidents \in BOOLEAN : StartPass(None, TRUE, incidents)
    \/ ProcessEvent
    \/ EndLoop
    \/ AddChunk
    \/ AddReturn
    \/ UpdateChunk
    \/ UpdateReturn
    \/ ReplaceStart
    \/ LookupFeature
    \/ DeleteExisting
    \/ AddFile
    \/ KeyDone
    \/ ReplaceReturn

SpecPass == InitPass /\ [][NextPass]_vars

(***************************************************************************)
(* SpecTranslate: the translation of the event_details of one event, one   *)
(* field at a time, run twice on the same event object with the same       *)
(* cached field definitions.  The event is of either type and has up to    *)
(* MaxFields fields, each with a scalar or a list as value; er keeps the   *)
(* event as the tracking service delivered it.                             *)
(***************************************************************************)
FieldChoices == {"species", "grade", "count", "tag-no", "tag_no", "note"}

RawChoices ==
    {Scalar(Text("L")), Scalar(Number(3)),
     List(<<Text("a"), Text("b")>>), List(<<Number(3), Text("L")>>)}

\* the dictionaries of n entries
RECURSIVE DetailsOfLen(_)
DetailsOfLen(n) ==
    IF n = 0 THEN {NoDetails}
    ELSE {WithDetail(d, field, raw) :
            d \in {x \in DetailsOfLen(n - 1) : Len(x.keys) = n - 1},
            field \in FieldChoices, raw \in RawChoices}

InitTranslate ==
    /\ now = StartOfPass /\ ticks = 0 /\ reports = 0 /\ passes = 1
    /\ \E type \in EventTypes, n \in 0..MaxFields :
          \E details \in {d \in DetailsOfLen(n) : Len(d.keys) = n} :
             /\ er = [k \in Keys |->
                        IF k = 1 THEN EventOf(1, StartOfPass, FALSE, 0, type, details)
                        ELSE NoEvent]
             /\ er_field_types =
                   Put(EmptyDict, type, _get_er_field_definitions(Schemas[type]))
             /\ schema_calls = <<type>>
    /\ layer = <<>>
    /\ pc = "translate"
    /\ caller = "events"
    /\ oldest_date = 0
    /\ include_attachments = FALSE
    /\ include_incidents = FALSE
    /\ er_events = <<er[1]>>
    /\ existing_events = EmptyDict
    /\ event_count = 1
    /\ features_to_add = <<>>
    /\ features_to_update = <<>>
    /\ er_event_files = NoFiles
    /\ UpsertIdle /\ AttIdle
    /\ Provisioned
    /\ field_calls = <<>>
    /\ query_log = <<"rows">>
    /\ fields_to_add = <<>>
    /\ feature = NewFeature(er[1])
    /\ field_pos = 0
    /\ PointsIdle /\ LateIdle

\* one iteration of the loop over event['event_details'].keys()
TranslateField ==
    /\ pc = "translate"
    /\ LET event == er_events[event_count]
           keys == event.event_details.keys
       IN /\ field_pos < Len(keys)
          /\ LET tr == TranslateOne([details |-> event.event_details,
                                     attributes |-> feature.attributes,
                                     fields_to_add |-> fields_to_add],
                                    keys[field_pos + 1],
                                    er_field_types[event.event_type], layer_fields)
             IN /\ er_events' = [er_events EXCEPT
                                   ![event_count].event_details = tr.details]
                /\ feature' = [attributes |-> tr.attributes]
                /\ fields_to_add' = tr.fields_to_add
    /\ field_pos' = field_pos + 1
    /\ UNCHANGED <<envVars, layer, pc, caller, oldest_date, include_attachments,
                   include_incidents, existing_events, event_count, features_to_add,
                   features_to_update, er_event_files, upsertVars, attVars,
                   er_schemas, layer_fields, field_calls, query_log, er_field_types,
                   schema_calls, pointVars, lateVars>>

\* the fields are exhausted and the feature is appended; after the first
\* translation the same event object is translated once more
TranslateEnd ==
    /\ pc = "translate"
    /\ field_pos = Len(er_events[event_count].event_details.keys)
    /\ features_to_add' = Append(features_to_add, feature)
    /\ IF features_to_add = <<>>
       THEN /\ feature' = NewFeature(er_events[event_count])
            /\ field_pos' = 0
            /\ UNCHANGED pc
       ELSE /\ pc' = "translated"
            /\ UNCHANGED <<feature, field_pos>>
    /\ UNCHANGED <<envVars, layer, caller, oldest_date, include_attachments,
                   include_incidents, er_events, existing_events, event_count,
                   features_to_update, er_event_files, upsertVars, attVars,
                   er_schemas, layer_fields, field_calls, query_log, er_field_types,
                   schema_calls, fields_to_add, pointVars, lateVars>>

NextTranslate ==
    \/ TranslateField
    \/ TranslateEnd

SpecTranslate == InitTranslate /\ [][NextTranslate]_vars

(***************************************************************************)
(* SpecPoints: one call of upsert_track_points_from_er on a layer of track *)
(* points that is new, or has the base attributes and up to two points of  *)
(* these observations and subjects, edited before or within the range.     *)
(***************************************************************************)
PointRowChoices ==
    {<<1, "s1", PaddingMs>>, <<1, "s1", 1000>>, <<1, "s2", PaddingMs>>,
     <<2, "s1", PaddingMs>>}

InitPoints ==
    /\ now = StartOfPass /\ ticks = 0 /\ reports = 0 /\ passes = 0
    /\ er = [k \in Keys |-> NoEvent]
    /\ er_schemas = Schemas
    /\ \/ /\ layer = <<>>
          /\ layer_fields = {}
       \/ /\ \E rows \in {r \in SUBSET PointRowChoices : Cardinality(r) <= 2} :
                \E order \in [1..Cardinality(rows) -> rows] :
                   /\ \A i, j \in DOMAIN order : i < j => order[i] # order[j]
                   /\ layer = [i \in DOMAIN order |->
                                 PointRow(i, order[i][1], order[i][2], order[i][3])]
          /\ layer_fields = Range(point_base_attributes)
    /\ pc = "idle"
    /\ caller = "none"
    /\ PassIdle /\ UpsertIdle /\ AttIdle /\ FieldsIdle /\ PointsIdle /\ LateIdle

NextPoints ==
    \/ \E od \in {None, Date(now - CallerLookback)} : StartPoints(od)
    \/ BeginSubject
    \/ ProcessPoint
    \/ EndSubject
    \/ AddChunk
    \/ AddReturn
    \/ UpdateReturn
    \/ EndPoints

SpecPoints == InitPoints /\ [][NextPoints]_vars

(***************************************************************************)
(* SpecRetry: successive calls of upsert_events_from_er, without           *)
(* attachments, over ER events that do not change and a clock that stands  *)
(* still, on a layer that has the base attributes and a row for some of    *)
(* the events; edit_features fails for any of the features.                *)
(***************************************************************************)
InitRetry ==
    /\ now = StartOfPass /\ ticks = 0 /\ reports = 0 /\ passes = 0
    /\ \E present \in SUBSET Keys :
          er = [k \in Keys |-> IF k \in present THEN Event(k, StartOfPass, FALSE, 0)
                               ELSE NoEvent]
    /\ \E edits \in [Keys -> {0, PaddingMs}] :
          layer = LayerOf(edits, [k \in Keys |-> 0])
    /\ pc = "idle"
    /\ caller = "none"
    /\ PassIdle /\ UpsertIdle /\ AttIdle /\ FieldsIdle /\ PointsIdle /\ LateIdle
    /\ Provisioned

NextRetry ==
    \/ \E od \in {None, Date(now - CallerLookback)} : StartPass(od, FALSE, FALSE)
    \/ ProcessEvent
    \/ EndLoop
    \/ AddChunk
    \/ AddReturn
    \/ UpdateChunk
    \/ UpdateReturn
    \/ PassEnds

SpecRetry == InitRetry /\ [][NextRetry]_vars

(***************************************************************************)
(* SpecTracks: one call of upsert_tracks_from_er on a layer of tracks that *)
(* is new, or has the fields and up to two tracks of the two subjects.     *)
(***************************************************************************)
TrackLayerChoices ==
    UNION {[1..n -> {"s1", "s2"}] : n \in 0..2}

InitTracks ==
    /\ now = StartOfPass /\ ticks = 0 /\ reports = 0 /\ passes = 0
    /\ er = [k \in Keys |-> NoEvent]
    /\ er_schemas = Schemas
    /\ \/ /\ layer = <<>>
          /\ layer_fields = {}
       \/ /\ \E ids \in TrackLayerChoices :
                layer = [i \in DOMAIN ids |-> TrackRow(i, ids[i], PaddingMs)]
          /\ layer_fields = Range(track_base_attributes)
    /\ pc = "idle"
    /\ caller = "none"
    /\ PassIdle /\ UpsertIdle /\ AttIdle /\ FieldsIdle /\ PointsIdle /\ LateIdle

NextTracks ==
    \/ StartTracks
    \/ ProcessSubject
    \/ EndTracks
    \/ AddChunk
    \/ AddReturn
    \/ UpdateChunk
    \/ UpdateReturn

SpecTracks == InitTracks /\ [][NextTracks]_vars

(***************************************************************************)
(* Vocabulary of the properties.                                           *)
(***************************************************************************)
\* how often a report number occurs in a feature list
Occurrences(list, key) ==
    Cardinality({i \in 1..Len(list) : list[i].attributes.ER_REPORT_NUMBER = key})

\* the decision the loop has taken for a report number
Inserted(key) == Occurrences(features_to_add, key) = 1
                 /\ Occurrences(features_to_update, key) = 0
Updated(key) == Occurrences(features_to_update, key) = 1
                /\ Occurrences(features_to_add, key) = 0
Skipped(key) == Occurrences(features_to_add, key) = 0
                /\ Occurrences(features_to_update, key) = 0

\* the events the loop has gone through
ProcessedEvents == {er_events[i] : i \in 1..event_count}

ReportNumber(event) == ToString(event.serial_number)

Known(event) == ReportNumber(event) \in DOMAIN existing_events

\* the collections the configuration of the pass excludes
Excluded(event) == include_incidents = FALSE /\ event.is_collection = TRUE

LastEdit(event) == existing_events[ReportNumber(event)][2]

\* record.update_time + padding, in milliseconds
PaddedUpdateTime(event) == event.updated_at * 1000 + 24 * 60 * 60 * 1000

(***************************************************************************)
(* C1: an event the loop has processed, that is not an excluded collection *)
(* and whose report number is not in the index of the pass, is in the add  *)
(* list exactly once, without OBJECTID, and not in the update list.        *)
(***************************************************************************)
C1_UnknownKeyIsInserted ==
    \A event \in ProcessedEvents :
        (~Excluded(event) /\ ~Known(event)) =>
            /\ Inserted(ReportNumber(event))
            /\ \A i \in 1..Len(features_to_add) :
                  features_to_add[i].attributes.ER_REPORT_NUMBER = ReportNumber(event)
                      => "OBJECTID" \notin DOMAIN features_to_add[i].attributes

\* the loop has inserted an unknown key while the index knew another event
C1_Witness ==
    /\ pc # "loop" /\ caller = "events"
    /\ \E e1, e2 \in ProcessedEvents :
          /\ ~Known(e1) /\ ~Excluded(e1) /\ Inserted(ReportNumber(e1))
          /\ Known(e2) /\ e1 # e2

C5_OneFeaturePerKey ==
    \A i, j \in 1..Len(layer) :
        i # j => layer[i].ER_REPORT_NUMBER # layer[j].ER_REPORT_NUMBER

(***************************************************************************)
(* C6: with include_incidents = False every processed collection is in     *)
(* neither list, whether or not its report number is in the index.         *)
(***************************************************************************)
C6_CollectionsAreSkipped ==
    include_incidents = FALSE =>
        \A event \in ProcessedEvents :
            event.is_collection => Skipped(ReportNumber(event))

\* two collections were skipped: one unknown, one known and not newer in Esri
C6_Witness ==
    /\ pc # "loop" /\ caller = "events" /\ include_incidents = FALSE
    /\ \E e1, e2 \in ProcessedEvents :
          /\ e1.is_collection /\ ~Known(e1) /\ Skipped(ReportNumber(e1))
          /\ e2.is_collection /\ Known(e2)
          /\ LastEdit(e2) <= PaddedUpdateTime(e2)
          /\ Skipped(ReportNumber(e2))

(***************************************************************************)
(* Vocabulary of the properties of _upsert_features.                       *)
(***************************************************************************)
\* the edit_features calls of one kind, in call order
CallsOf(kind) == SelectSeq(calls, LAMBDA c : c.kind = kind)

RECURSIVE Concat(_)
\* the features of a sequence of calls, concatenated in call order
Concat(cs) == IF cs = <<>> THEN <<>> ELSE Head(cs).features \o Concat(Tail(cs))

\* ceil(n / k)
CeilDiv(n, k) == (n + k - 1) \div k

\* the chunks cs are what the claim says of a list lst cut by size k
ChunkedAsClaimed(cs, lst, k) ==
    /\ Len(cs) = CeilDiv(Len(lst), k)
    /\ \A i \in 1..(Len(cs) - 1) : Len(cs[i].features) = k
    /\ cs # <<>> => Len(cs[Len(cs)].features) \in 1..k
    /\ Concat(cs) = lst

\* the per-feature results of the calls of one kind that are success == True
Successes(kind) ==
    {<<i, j>> \in (1..Len(calls)) \X (1..(MaxAdds + MaxUpdates + MaxChunk + 1)) :
        /\ calls[i].kind = kind
        /\ j <= Len(calls[i].results)
        /\ calls[i].results[j] = TRUE}

\* a call before the last one of the whole sequence held a failed feature
FailureBeforeLastCall ==
    \E i \in 1..(Len(calls) - 1) :
        \E j \in 1..Len(calls[i].results) : calls[i].results[j] = FALSE

(***************************************************************************)
(* C7: when _upsert_features has returned, the add calls are ceil(n/k)     *)
(* many, all but the last carry k features and the last 1..k, and          *)
(* concatenated they are add_features; the same for the update calls and   *)
(* update_features; every call carries one kind only, the adds first; 7    *)
(* adds with k = 2 are 4 calls of sizes 2,2,2,1 and an empty list is 0     *)
(* calls.                                                                  *)
(***************************************************************************)
C7_ChunksPartitionTheLists ==
    pc = "returned" =>
        /\ ChunkedAsClaimed(CallsOf("adds"), features_to_add, chunk_size)
        /\ ChunkedAsClaimed(CallsOf("updates"), features_to_update, chunk_size)
        /\ calls = CallsOf("adds") \o CallsOf("updates")
        /\ (Len(features_to_add) = 7 /\ chunk_size = 2) =>
              [i \in 1..Len(CallsOf("adds")) |-> Len(CallsOf("adds")[i].features)]
                  = <<2, 2, 2, 1>>
        /\ features_to_add = <<>> => CallsOf("adds") = <<>>
        /\ features_to_update = <<>> => CallsOf("updates") = <<>>

\* 7 adds by 2 have been submitted in 4 calls, and updates after them
C7_Witness ==
    /\ pc = "returned"
    /\ Len(features_to_add) = 7 /\ chunk_size = 2
    /\ Len(CallsOf("adds")) = 4
    /\ Len(CallsOf("updates")) = 1

(***************************************************************************)
(* C8: when _upsert_features has returned, every feature of both lists has *)
(* been submitted whatever the earlier results were, added and updated are *)
(* the numbers of results with success == True, and the layer has grown by *)
(* exactly the added features.                                             *)
(***************************************************************************)
C8_FailuresAreIsolated ==
    pc = "returned" =>
        /\ Concat(CallsOf("adds")) = features_to_add
        /\ Concat(CallsOf("updates")) = features_to_update
        /\ added = Cardinality(Successes("adds"))
        /\ updated = Cardinality(Successes("updates"))
        /\ Len(layer) = Len(features_to_update) + added

\* a feature of a chunk failed, later chunks were submitted, and the counts
\* miss exactly the failed features
C8_Witness ==
    /\ pc = "returned"
    /\ FailureBeforeLastCall
    /\ Len(CallsOf("adds")) >= 2 /\ Len(CallsOf("updates")) >= 2
    /\ added = Len(features_to_add) - 1
    /\ updated = Len(features_to_update) - 1

(***************************************************************************)
(* C9 as claimed: a pass in which the insert or the update of a feature    *)
(* failed does not raise.                                                  *)
(***************************************************************************)
C9_PassSurvivesFailedMutation ==
    (caller = "events"
        /\ \E i \in 1..Len(calls) :
              \E j \in 1..Len(calls[i].results) : calls[i].results[j] = FALSE)
    => pc # "raised"

(***************************************************************************)
(* Vocabulary of the properties of _replace_attachments.                   *)
(***************************************************************************)
\* positions of the log with a given operation on a given key
LogOps(op, key) == {i \in 1..Len(att_log) : att_log[i].op = op /\ att_log[i].key = key}

\* the row _replace_attachments works on for a key
FeatureOf(key) == layer[CHOOSE i \in 1..Len(layer) :
                            layer[i].OBJECTID = att_existing[key][1]]

DesiredNames(key) ==
    [i \in 1..Len(er_event_files.files[key]) |-> er_event_files.files[key][i].filename]

(***************************************************************************)
(* C10: for every key whose replacement has completed, the attachments of  *)
(* its feature are exactly the desired files, in order, each once; as many *)
(* attachments were deleted as were listed, each desired file was added    *)
(* once, and every deletion on the feature came before every addition.     *)
(***************************************************************************)
C10_AttachmentsAreReplaced ==
    \A key \in att_done :
        /\ [i \in 1..Len(FeatureOf(key).attachments) |->
                FeatureOf(key).attachments[i].name] = DesiredNames(key)
        /\ \A l \in LogOps("list", key) :
              /\ Cardinality(LogOps("delete", key)) = att_log[l].what
              /\ {att_log[d].what : d \in LogOps("delete", key)} = 1..att_log[l].what
        /\ Cardinality(LogOps("list", key)) = 1
        /\ Cardinality(LogOps("add", key)) = Len(DesiredNames(key))
        /\ \A d \in LogOps("delete", key), a \in LogOps("add", key) : d < a

\* a feature that had 2 attachments and 1 desired file holds exactly 1
C10_Witness ==
    \E key \in att_done :
        /\ \E l \in LogOps("list", key) : att_log[l].what = 2
        /\ Len(DesiredNames(key)) = 1
        /\ Len(FeatureOf(key).attachments) = 1

(***************************************************************************)
(* C11 as claimed: a file whose download or upload failed does not stop    *)
(* _replace_attachments: the call goes on with the remaining files and     *)
(* keys instead of raising.                                                *)
(***************************************************************************)
C11_FailedFileDoesNotBlock ==
    (\E i \in 1..Len(att_log) :
        att_log[i].op \in {"download_failed", "upload_failed"})
    => pc # "raised"

(***************************************************************************)
(* Vocabulary of the properties of the field provisioning.                 *)
(***************************************************************************)
\* the add_to_definition calls made from one place, in call order
FieldCallsAt(site) == SelectSeq(field_calls, LAMBDA c : c.site = site)

\* the target store has rejected field definitions submitted from a place
Rejected(site) == \E i \in 1..Len(field_calls) :
                      field_calls[i].site = site /\ field_calls[i].success = FALSE

\* names of the pending field list, in order
PendingNames == [i \in 1..Len(fields_to_add) |-> fields_to_add[i][1]]

NoDuplicates(seq) == \A i, j \in 1..Len(seq) : i # j => seq[i] # seq[j]

(***************************************************************************)
(* C12: once the flush of the pending fields was rejected, the pass is     *)
(* raised, and it has issued no edit_features call and no attachment       *)
(* operation.                                                              *)
(***************************************************************************)
C12_RejectedFlushIsFatal ==
    Rejected("flush") =>
        /\ pc = "raised"
        /\ calls = <<>>
        /\ att_log = <<>>

\* the flush was rejected while features and files were waiting
C12_Witness ==
    /\ Rejected("flush")
    /\ pc = "raised"
    /\ Len(features_to_add) > 0 /\ Len(features_to_update) > 0
    /\ include_attachments /\ Len(er_event_files.keys) > 0

(***************************************************************************)
(* C13 as claimed: once the target store has rejected field definitions,   *)
(* those of _ensure_attributes_in_layer included, no edit_features call is *)
(* made in the pass.                                                       *)
(***************************************************************************)
C13_RejectedFieldsAbortThePass ==
    (Rejected("ensure") \/ Rejected("flush")) => calls = <<>>

(***************************************************************************)
(* C14: the pending field list never holds a name twice; while the loop    *)
(* over the events runs it holds no name that is a field of the layer; and *)
(* a pass flushes at most once, submitting every pending name exactly once.*)
(***************************************************************************)
C14_PendingFieldsAreNew ==
    /\ NoDuplicates(PendingNames)
    /\ pc = "loop" => \A i \in 1..Len(fields_to_add) :
                         PendingNames[i] \notin layer_fields
    /\ Len(FieldCallsAt("flush")) <= 1
    /\ \A i \in 1..Len(FieldCallsAt("flush")) :
          /\ FieldCallsAt("flush")[i].fields = PendingNames
          /\ NoDuplicates(FieldCallsAt("flush")[i].fields)

\* two events of two types were translated, both name species_string and
\* count: species_string is a field of the layer and is not pending, the two
\* counts are pending once each
C14_Witness ==
    /\ pc = "loop" /\ event_count = 2
    /\ Len(features_to_add) + Len(features_to_update) = 2
    /\ er_events[1].event_type # er_events[2].event_type
    /\ er_events[1].event_details.keys # <<>>
    /\ er_events[2].event_details.keys # <<>>
    /\ "species_string" \in layer_fields
    /\ Range(PendingNames) =
          {"count_number", "count_string", "herd_id_number", "herd_id_string"}
    /\ Len(PendingNames) = 4

(***************************************************************************)
(* C15 as claimed: asking for the schema of an event type that cannot be   *)
(* resolved does not raise out of the pass.                                *)
(***************************************************************************)
C15_MissingSchemaDoesNotCrash ==
    (\E i \in 1..Len(schema_calls) : er_schemas[schema_calls[i]] = [available |-> FALSE])
    => pc # "raised"

(***************************************************************************)
(* Vocabulary of the properties of the translation.                        *)
(***************************************************************************)
\* the event as the tracking service delivered it
RawEvent(event) == er[event.serial_number]

\* the declared type of a field of an event type, string when none is declared
DeclaredType(type, field) ==
    IF "type" \in DOMAIN er_field_types[type][field]
    THEN er_field_types[type][field].type ELSE "string"

\* the attribute key of a field: the name with "_" and the declared type,
\* hyphens replaced
AttributeKey(type, field) ==
    Replace(field \o "_" \o DeclaredType(type, field), "-", "_")

\* the elements of a raw value, a scalar being one element
Elements(raw) == IF raw.is_list THEN raw.items ELSE <<raw.value>>

\* an element after substitution and stringification under a field definition
Substituted(v, field_def) ==
    IF v.is_str
    THEN IF "value_map" \in DOMAIN field_def /\ v.s \in DOMAIN field_def.value_map
         THEN field_def.value_map[v.s] ELSE v.s
    ELSE ToString(v.n)

RECURSIVE CommaJoined(_)
CommaJoined(strings) ==
    IF Len(strings) = 0 THEN ""
    ELSE IF Len(strings) = 1 THEN strings[1]
    ELSE strings[1] \o "," \o CommaJoined(Tail(strings))

\* the attribute the claim gives a raw value under a field definition
ClaimedAttribute(raw, field_def) ==
    CommaJoined([i \in 1..Len(Elements(raw)) |->
                    Substituted(Elements(raw)[i], field_def)])

(***************************************************************************)
(* C16 as claimed: the second translation of an event object gives the     *)
(* attributes the first one gave.                                          *)
(***************************************************************************)
C16_TranslationIsRepeatable ==
    Len(features_to_add) = 2 =>
        features_to_add[2].attributes = features_to_add[1].attributes

(***************************************************************************)
(* C17: in the first translation of an event, right after a field that is  *)
(* in the field definitions was translated, its attribute is the           *)
(* comma-join, in order, of the elements of the raw value, each replaced   *)
(* by its value_map entry when there is one, then stringified; a list a, b *)
(* under the species map gives "Alpha,Beta" and the scalar L gives "Lion". *)
(***************************************************************************)
C17_AttributeIsMappedJoin ==
    (pc = "translate" /\ features_to_add = <<>> /\ field_pos > 0) =>
        LET event == RawEvent(er_events[event_count])
            field == event.event_details.keys[field_pos]
            raw == event.event_details.vals[field]
            field_defs == er_field_types[event.event_type]
        IN field \in DOMAIN field_defs =>
              LET attribute == feature.attributes[AttributeKey(event.event_type, field)]
              IN /\ attribute = ClaimedAttribute(raw, field_defs[field])
                 /\ (field = "species" /\ raw = List(<<Text("a"), Text("b")>>))
                        => attribute = "Alpha,Beta"
                 /\ (field = "species" /\ raw = Scalar(Text("L")))
                        => attribute = "Lion"

\* a count and then a list of species were translated
C17_Witness ==
    /\ pc = "translate" /\ features_to_add = <<>> /\ field_pos = 2
    /\ RawEvent(er_events[1]).event_details.keys = <<"count", "species">>
    /\ RawEvent(er_events[1]).event_details.vals["species"]
          = List(<<Text("a"), Text("b")>>)
    /\ RawEvent(er_events[1]).event_type = "sighting"
    /\ feature.attributes["species_string"] = "Alpha,Beta"
    /\ feature.attributes["count_number"] = "3"

(***************************************************************************)
(* Vocabulary of the properties of the field names.                        *)
(***************************************************************************)
\* the features the loop has built so far
BuiltFeatures == features_to_add \o features_to_update

\* the feature the loop has built for an event
FeatureFor(event) ==
    BuiltFeatures[CHOOSE n \in 1..Len(BuiltFeatures) :
                     BuiltFeatures[n].attributes.ER_REPORT_NUMBER = ReportNumber(event)]

\* the fields of an event that are in the field definitions of its type
KnownFields(event) ==
    {f \in Range(event.event_details.keys) : f \in DOMAIN er_field_types[event.event_type]}

\* the name of a field without regard to hyphens
BaseName(field) == Replace(field, "-", "_")

\* the new-field requests for a name in the pending list
RequestsFor(name) == {n \in 1..Len(fields_to_add) : fields_to_add[n][1] = name}

\* the event the loop has translated at position i, as it was delivered
TranslatedEvents ==
    {RawEvent(er_events[i]) : i \in {n \in 1..event_count : ~Skipped(KeyOf(er_events[n]))}}

(***************************************************************************)
(* C18: while the loop runs, two fields of translated events (of one event *)
(* or of two) that have the same base name and different declared types    *)
(* have different attribute keys base name + "_" + type; each key that the *)
(* layer does not declare is requested exactly once in the pending list,   *)
(* so the two have separate requests; and each event's feature holds under *)
(* each key the value translated from that field.                          *)
(***************************************************************************)
C18_TypedNamesDoNotCollide ==
    pc = "loop" =>
        \A e1, e2 \in TranslatedEvents :
            \A f1 \in KnownFields(e1), f2 \in KnownFields(e2) :
                LET t1 == e1.event_type
                    t2 == e2.event_type
                    k1 == AttributeKey(t1, f1)
                    k2 == AttributeKey(t2, f2)
                IN (BaseName(f1) = BaseName(f2)
                    /\ DeclaredType(t1, f1) # DeclaredType(t2, f2)) =>
                       /\ k1 # k2
                       /\ k1 = BaseName(f1) \o "_" \o DeclaredType(t1, f1)
                       /\ k1 \notin layer_fields => Cardinality(RequestsFor(k1)) = 1
                       /\ k2 \notin layer_fields => Cardinality(RequestsFor(k2)) = 1
                       /\ RequestsFor(k1) \cap RequestsFor(k2) = {}
                       /\ k1 \in DOMAIN FeatureFor(e1).attributes
                       /\ FeatureFor(e1).attributes[k1] =
                             ClaimedAttribute(e1.event_details.vals[f1],
                                              er_field_types[t1][f1])
                       /\ k2 \in DOMAIN FeatureFor(e2).attributes
                       /\ FeatureFor(e2).attributes[k2] =
                             ClaimedAttribute(e2.event_details.vals[f2],
                                              er_field_types[t2][f2])

\* a sighting with herd-id (number) and herd_id (string) and a snare with a
\* count (string, number in a sighting) were translated
C18_Witness ==
    /\ pc = "loop" /\ event_count = 2
    /\ \E e1, e2 \in TranslatedEvents :
          /\ e1.event_type = "sighting" /\ e2.event_type = "snare"
          /\ {"herd-id", "herd_id", "count"} \subseteq KnownFields(e1)
          /\ "count" \in KnownFields(e2)
          /\ FeatureFor(e1).attributes["herd_id_number"] = "7"
          /\ FeatureFor(e1).attributes["herd_id_string"] = "h"
          /\ FeatureFor(e1).attributes["count_number"] = "3"
          /\ FeatureFor(e2).attributes["count_string"] = "3"
    /\ {"herd_id_number", "herd_id_string", "count_number", "count_string"}
          \subseteq Range(PendingNames)

(***************************************************************************)
(* Vocabulary of the properties of the index query.                        *)
(***************************************************************************)
\* the outcome of the query for the index of existing events of the pass
IndexQuery == IF query_log = <<>> THEN "none" ELSE query_log[1]

\* the pass has got to the loop over the events and has met no error since
LoopReached == pc \notin {"idle", "raised"}

(***************************************************************************)
(* C19: when the query for the index fails because the layer has no field  *)
(* ER_REPORT_NUMBER, the index is empty and the pass goes on into the loop *)
(* instead of raising; from then on nothing is put on the update list, no  *)
(* updates call is made, and every event the loop has gone through that is *)
(* not an excluded collection is on the add list exactly once, as long as  *)
(* no later step has raised.  When the query fails in any other way, the   *)
(* pass is raised before the first event and has made no edit_features     *)
(* call and no attachment operation.                                       *)
(***************************************************************************)
C19_MissingLookupFieldMeansInsert ==
    /\ IndexQuery = "invalid_field" =>
          /\ existing_events = EmptyDict
          /\ (event_count = 0 /\ FieldCallsAt("flush") = <<>>) => pc # "raised"
          /\ features_to_update = <<>>
          /\ \A i \in 1..Len(calls) : calls[i].kind # "updates"
          /\ LoopReached =>
                \A i \in 1..event_count :
                    IF Excluded(er_events[i]) THEN Skipped(KeyOf(er_events[i]))
                    ELSE Inserted(KeyOf(er_events[i]))
    /\ IndexQuery = "error" =>
          /\ pc = "raised"
          /\ event_count = 0
          /\ features_to_add = <<>> /\ features_to_update = <<>>
          /\ calls = <<>>
          /\ att_log = <<>>

\* on a layer without fields the index query failed on the lookup field, and
\* the loop has put both events of the pass, whose last one is a collection,
\* on the add list
C19_Witness ==
    /\ IndexQuery = "invalid_field"
    /\ layer_fields = {}
    /\ pc = "loop" /\ event_count = 2
    /\ include_incidents = TRUE /\ er_events[2].is_collection = TRUE
    /\ Inserted("1") /\ Inserted("2")

(***************************************************************************)
(* Vocabulary of the properties of the track points.                       *)
(***************************************************************************)
\* the subject the loop is at
CurrentSubject == subjects[subject_pos]

\* the observation ids of the rows of the layer that belong to the current
\* subject and were edited within the range
ScopedIds ==
    {Str(layer[i].ER_OBSERVATION_ID) :
        i \in {n \in 1..Len(layer) : /\ layer[n].ER_SUBJECT_ID = CurrentSubject.id
                                      /\ MsAfter(layer[n].EditDate, oldest_date)}}

\* the ids of the first n observations that are absent from the index, in order
AbsentIds(n) ==
    LET absent == SelectSeq(SubSeq(er_observations, 1, n),
                            LAMBDA point : Str(point.id) \notin DOMAIN existing_points)
    IN [i \in 1..Len(absent) |-> absent[i].id]

ObservationIds(features) ==
    [i \in 1..Len(features) |-> features[i].attributes.ER_OBSERVATION_ID]

RECURSIVE FeaturesOfLast(_)
\* the features of the last n edit_features calls, in order
FeaturesOfLast(n) ==
    IF n = 0 THEN <<>>
    ELSE FeaturesOfLast(n - 1) \o calls[Len(calls) - n + 1].features

\* the features of the current subject that went into edit_features calls
SubmittedForSubject ==
    LET sent == IF pc = "add" THEN Min(chunk_start, Len(features_to_add))
                ELSE Len(features_to_add)
    IN FeaturesOfLast((sent + chunk_size - 1) \div chunk_size)

(***************************************************************************)
(* C20: in a call of upsert_track_points_from_er the update list is always *)
(* empty, no edit_features call carries updates and no submitted feature   *)
(* an OBJECTID.  In the loop over the observations of a subject the index  *)
(* holds the ids of the layer's points of that subject edited within the   *)
(* range, and the add list holds, in order, the observations gone through  *)
(* whose id is not in the index; these, and no others, are what the adds   *)
(* calls for the subject carry.                                            *)
(***************************************************************************)
C20_ExistingPointsAreSkipped ==
    caller = "points" =>
        /\ features_to_update = <<>>
        /\ \A i \in 1..Len(calls) :
              /\ calls[i].kind = "adds"
              /\ \A j \in 1..Len(calls[i].features) :
                    "OBJECTID" \notin DOMAIN calls[i].features[j].attributes
        /\ pc = "points" =>
              /\ DOMAIN existing_points = ScopedIds
              /\ ObservationIds(features_to_add) = AbsentIds(point_count)
        /\ pc \in {"add", "update"} =>
              /\ ObservationIds(features_to_add) = AbsentIds(Len(er_observations))
              /\ \A i \in 1..Len(features_to_add) :
                    features_to_add[i].attributes.ER_SUBJECT_ID = CurrentSubject.id
              /\ SubmittedForSubject =
                    SubSeq(features_to_add, 1, Len(SubmittedForSubject))
              /\ pc = "update" => SubmittedForSubject = features_to_add

\* the layer has observation 1 of the second subject and observation 2 of the
\* first; of the observations 1 and 2 of the second subject, 1 is in the index
\* and 2 was submitted
C20_Witness ==
    /\ caller = "points" /\ pc = "update"
    /\ subject_pos = 2
    /\ er_observations = <<[id |-> 1], [id |-> 2]>>
    /\ DOMAIN existing_points = {"1"}
    /\ \E i \in 1..Len(layer) :
          /\ layer[i].ER_OBSERVATION_ID = 2 /\ layer[i].ER_SUBJECT_ID = "s1"
          /\ MsAfter(layer[i].EditDate, oldest_date)
    /\ calls # <<>>
    /\ ObservationIds(calls[Len(calls)].features) = <<2>>

(***************************************************************************)
(* Vocabulary of the properties of the phases of a pass.                   *)
(***************************************************************************)
\* the flushes of pending fields in a log of add_to_definition calls
FlushCalls(log) == SelectSeq(log, LAMBDA c : c.site = "flush")

\* the names of the accepted flushes in a log of add_to_definition calls
FlushedNames(log) ==
    UNION {Range(log[i].fields) :
             i \in {n \in 1..Len(log) : log[n].site = "flush" /\ log[n].success}}

\* the attribute keys of a feature that come from event_details
DynamicKeys(f) == DOMAIN f.attributes \ {"ER_REPORT_NUMBER", "OBJECTID"}

\* the number of features that went into edit_features calls
SubmittedCount(log) ==
    LET RECURSIVE Sum(_)
        Sum(n) == IF n = 0 THEN 0 ELSE Sum(n - 1) + Len(log[n].features)
    IN Sum(Len(log))

(***************************************************************************)
(* C21: in a pass of upsert_events_from_er, a step that makes an           *)
(* edit_features call finds no attachment operation done, the pending      *)
(* fields (if any) flushed exactly once, and every attribute key from      *)
(* event_details of the features of the call declared in the layer or      *)
(* named in the accepted flush; a step that flushes finds no flush, no     *)
(* edit_features call and no attachment operation done; a step that does   *)
(* an attachment operation finds every feature of the two lists submitted  *)
(* and makes no edit_features call.                                        *)
(***************************************************************************)
C21_PhasesAreOrdered ==
    [][/\ calls' # calls =>
            /\ att_log = <<>> /\ att_log' = <<>>
            /\ field_calls' = field_calls
            /\ Len(FlushCalls(field_calls)) = (IF fields_to_add = <<>> THEN 0 ELSE 1)
            /\ \A j \in 1..Len(calls'[Len(calls')].features) :
                  DynamicKeys(calls'[Len(calls')].features[j])
                     \subseteq layer_fields \cup FlushedNames(field_calls)
       /\ FlushCalls(field_calls') # FlushCalls(field_calls) =>
            /\ FlushCalls(field_calls) = <<>>
            /\ calls = <<>> /\ calls' = <<>>
            /\ att_log = <<>> /\ att_log' = <<>>
       /\ att_log' # att_log =>
            /\ calls' = calls
            /\ SubmittedCount(calls) = Len(features_to_add) + Len(features_to_update)
      ]_vars

\* a pass has flushed count_number, submitted a feature that has it, and
\* has come to the attachments
C21_Witness ==
    /\ caller = "events"
    /\ "count_number" \in FlushedNames(field_calls)
    /\ \E i \in 1..Len(calls) : \E j \in 1..Len(calls[i].features) :
          "count_number" \in DynamicKeys(calls[i].features[j])
    /\ att_log # <<>>

(***************************************************************************)
(* Vocabulary of the properties of the excluded collections.               *)
(***************************************************************************)
\* the attribute keys of the fields of an event that the schema of its type
\* defines, by the schema the tracking service holds
SchemaKeys(event) ==
    LET field_defs == _get_er_field_definitions(er_schemas[event.event_type])
    IN {BaseName(f) \o "_" \o Get(field_defs[f], "type", "string") :
          f \in {g \in Range(event.event_details.keys) : g \in DOMAIN field_defs}}

(***************************************************************************)
(* C22 as claimed: while the loop runs, a collection it has gone through   *)
(* with incident linkage disabled has each of its defined fields declared  *)
(* in the layer or in the pending list, and, when it has files, an entry   *)
(* in er_event_files.                                                      *)
(***************************************************************************)
C22_ExclusionIsOnlyAtUpsert ==
    pc = "loop" =>
        \A i \in 1..event_count :
            LET event == RawEvent(er_events[i])
            IN (Excluded(event) /\ SchemaResolves(event.event_type)) =>
                  /\ SchemaKeys(event) \subseteq layer_fields \cup Range(PendingNames)
                  /\ event.files # <<>> =>
                        KeyOf(event) \in Range(er_event_files.keys)

(***************************************************************************)
(* C26: in a pass of upsert_events_from_er, get_event_schema was asked for *)
(* no event type twice, and each type it was asked for is the type of an   *)
(* event the loop has gone through that was neither skipped as stale nor   *)
(* excluded as a collection.                                               *)
(***************************************************************************)
C26_SchemaFetchedOncePerType ==
    caller = "events" =>
        /\ NoDuplicates(schema_calls)
        /\ \A n \in 1..Len(schema_calls) :
              \E i \in 1..event_count :
                  /\ er_events[i].event_type = schema_calls[n]
                  /\ ~Excluded(er_events[i])
                  /\ ~(/\ ReportNumber(er_events[i]) \in DOMAIN existing_events
                       /\ LastEdit(er_events[i]) > PaddedUpdateTime(er_events[i]))

\* the loop has translated two events of one type and the schema of the type
\* was asked for once
C26_Witness ==
    /\ caller = "events" /\ pc = "loop" /\ event_count = 2
    /\ er_events[1].event_type = "sighting" /\ er_events[2].event_type = "sighting"
    /\ ~Excluded(er_events[1]) /\ ~Excluded(er_events[2])
    /\ Inserted("1") /\ Inserted("2")
    /\ schema_calls = <<"sighting">>

(***************************************************************************)
(* Vocabulary of the properties of the unknown fields.                     *)
(***************************************************************************)
\* the fields of an event that are not in the field definitions of its type
UnknownFields(event) == Range(event.event_details.keys) \ KnownFields(event)

\* the attribute keys of the known fields of an event
KnownKeys(event) == {AttributeKey(event.event_type, f) : f \in KnownFields(event)}

\* the loop has skipped the event as stale
Stale(event) ==
    /\ ReportNumber(event) \in DOMAIN existing_events
    /\ LastEdit(event) > PaddedUpdateTime(event)

(***************************************************************************)
(* C24: while the loop runs, every event it has gone through that is       *)
(* neither stale nor an excluded collection is on the add list or on the   *)
(* update list, whether or not it has fields that are not in the field     *)
(* definitions of its type; the attributes of its feature that come from   *)
(* event_details are exactly those of its known fields, each with the      *)
(* value translated from that field; and every name in the pending list    *)
(* is the attribute key of a known field of such an event.                 *)
(***************************************************************************)
C24_UnknownFieldsAreDropped ==
    pc = "loop" =>
        /\ \A i \in 1..event_count :
              LET event == RawEvent(er_events[i])
              IN (~Excluded(event) /\ ~Stale(event)) =>
                    /\ Inserted(KeyOf(event)) \/ Updated(KeyOf(event))
                    /\ DynamicKeys(FeatureFor(event)) = KnownKeys(event)
                    /\ \A f \in KnownFields(event) :
                          FeatureFor(event).attributes[AttributeKey(event.event_type, f)]
                             = ClaimedAttribute(event.event_details.vals[f],
                                                er_field_types[event.event_type][f])
        /\ Range(PendingNames) \subseteq UNION {KnownKeys(e) : e \in TranslatedEvents}

\* a snare with a count and a species, and with two fields the schema of
\* snares does not have, was translated
C24_Witness ==
    /\ pc = "loop" /\ event_count = 1
    /\ er_events[1].event_type = "snare"
    /\ UnknownFields(RawEvent(er_events[1])) = {"herd-id", "herd_id"}
    /\ Inserted("1")
    /\ DynamicKeys(FeatureFor(er_events[1])) = {"count_string", "species_string"}
    /\ FeatureFor(er_events[1]).attributes["species_string"] = "Alpha,Beta"

(***************************************************************************)
(* C27 as claimed: when the first translation of an event has gone through *)
(* all its fields, any two different fields of the event that are in the   *)
(* field definitions have different attribute keys, and the feature holds  *)
(* under the key of each the value translated from that field.             *)
(***************************************************************************)
C27_FieldKeysAreDistinct ==
    (pc = "translate" /\ features_to_add = <<>>
     /\ field_pos = Len(er_events[event_count].event_details.keys)) =>
        LET event == RawEvent(er_events[event_count])
            type == event.event_type
        IN \A f1, f2 \in KnownFields(event) :
              f1 # f2 =>
                 /\ AttributeKey(type, f1) # AttributeKey(type, f2)
                 /\ feature.attributes[AttributeKey(type, f1)] =
                       ClaimedAttribute(event.event_details.vals[f1],
                                        er_field_types[type][f1])

(***************************************************************************)
(* Vocabulary of the properties of successive runs.                        *)
(***************************************************************************)
\* the report numbers of the features that failed in the calls of a kind
FailedKeys(log, kind) ==
    UNION {{log[i].features[j].attributes.ER_REPORT_NUMBER :
               j \in {m \in 1..Len(log[i].features) : ~log[i].results[m]}} :
             i \in {n \in 1..Len(log) : log[n].kind = kind}}

\* how often a report number went into an edit_features call of this call
TimesSubmitted(key) == Occurrences(Concat(calls), key)

WithCoordinates(entry) ==
    SelectSeq(entry.features, LAMBDA t : t.geometry /\ t.coordinates # 0)

RECURSIVE OutcomesOf(_, _, _)
\* the outcomes the claim grants the logged subjects, kind by kind: one per
\* feature with coordinates, an update with the OBJECTID of the index when
\* the subject is a key of the index and an insert otherwise
OutcomesOf(log, index, kind) ==
    IF log = <<>> THEN <<>>
    ELSE LET entry == log[1]
             known == entry.subject \in DOMAIN index
             mine == IF kind = "UPDATE" /\ known
                     THEN [i \in DOMAIN WithCoordinates(entry) |->
                             [ER_ID |-> entry.subject,
                              paths |-> <<WithCoordinates(entry)[i].coordinates>>,
                              OBJECTID |-> index[entry.subject]]]
                     ELSE IF kind = "INSERT" /\ ~known
                     THEN [i \in DOMAIN WithCoordinates(entry) |->
                             [ER_ID |-> entry.subject,
                              paths |-> <<WithCoordinates(entry)[i].coordinates>>,
                              OBJECTID |-> 0]]
                     ELSE <<>>
         IN mine \o OutcomesOf(Tail(log), index, kind)

\* what a list of polylines says: subject, paths and OBJECTID (0 for none)
Said(features) ==
    [i \in DOMAIN features |->
        [ER_ID |-> features[i].attributes.ER_ID,
         paths |-> features[i].geometry.paths,
         OBJECTID |-> IF "OBJECTID" \in DOMAIN features[i].attributes
                      THEN features[i].attributes.OBJECTID ELSE 0]]

\* the number of rows of a layer of tracks that belong to a subject
TracksOf(lay, id) == Cardinality({i \in 1..Len(lay) : lay[i].ER_ID = id})

\* the lists of a call of upsert_tracks_from_er hold exactly the outcomes of
\* the subjects gone through, and what was sent to the layer follows the index
TrackOutcomes ==
    (caller = "tracks" /\ pc # "raised") =>
        /\ Said(features_to_add) = OutcomesOf(track_log, existing_tracks, "INSERT")
        /\ Said(features_to_update) = OutcomesOf(track_log, existing_tracks, "UPDATE")
        /\ \A c \in 1..Len(calls) : \A i \in 1..Len(calls[c].features) :
              LET attributes == calls[c].features[i].attributes
              IN IF calls[c].kind = "adds"
                 THEN attributes.ER_ID \notin DOMAIN existing_tracks
                 ELSE /\ attributes.ER_ID \in DOMAIN existing_tracks
                      /\ attributes.OBJECTID = existing_tracks[attributes.ER_ID]

\* C25: in a call of upsert_tracks_from_er that has not raised, a track
\* feature without geometry or without coordinates gives no outcome and every
\* other feature of a subject gone through gives exactly one, an update with
\* the OBJECTID of the index when the subject's id is a key of the index and
\* an insert otherwise; no step of the call changes the number of tracks the
\* layer holds for a subject of the index.
C25_TrackOutcomesFollowIndex ==
    [][/\ TrackOutcomes'
       /\ caller = "tracks" =>
             \A id \in DOMAIN existing_tracks :
                TracksOf(layer', id) = TracksOf(layer, id)]_vars

\* a call went through a subject of the index and a subject outside it: a
\* feature without coordinates was passed over, one track was updated in
\* place and one was inserted
C25_Witness ==
    /\ caller = "tracks"
    /\ pc = "done"
    /\ DOMAIN existing_tracks = {"s1"}
    /\ track_log = <<[subject |-> "s1", features |-> <<NoCoordinates, Line(1)>>],
                     [subject |-> "s2", features |-> <<NoGeometry, Line(1)>>]>>
    /\ Len(features_to_update) = 1
    /\ Len(features_to_add) = 1
    /\ updated = 1
    /\ added = 1
    /\ TracksOf(layer, "s1") = 1
    /\ TracksOf(layer, "s2") = 1

====
